---- MODULE Spec2Model ----
(***************************************************************************)
(* A model of the ollama client (OllamaClient.post, OllamaClient.stream)   *)
(* and of the AI service built on it (AIService.query,                     *)
(* AIService.queryStream) of src/src/api/ollamaClient.ts.                  *)
(*                                                                         *)
(* Texts are sequences of tokens.  Errors are records                      *)
(* [cls, message, hasStatus, statusCode, originalError].  A value that may  *)
(* be undefined is None or Some(v).                                        *)
(***************************************************************************)
EXTENDS Integers, Sequences, FiniteSets, TLC

VARIABLES
    \* ---- OllamaClient.post (one single-shot call)
    retryAttempts,  \* this.retryAttempts (config.ollama.retryAttempts)
    attempt,        \* let attempt
    ppc,            \* where the call is: idle, fetching, text, json, delay, returned, threw
    fetchCount,     \* number of fetch() calls issued by the call
    timerArmed,     \* the setTimeout of the current attempt is pending
    elapsed,        \* ticks since the current attempt started
    delaysWaited,   \* number of retry delays that have fully elapsed
    pendingResp,    \* the Response whose body is being read
    lastFault,      \* what made the last failed attempt fail
    postOutcome,    \* what the call gave its caller: a value or an error
    \* ---- AIService.query
    caller,         \* who called post: "client" (chat/generate/listModels) or "query"
    qpc,            \* idle, awaiting, done
    queryResult,    \* what query returned (or the fault that escaped it)
    \* ---- OllamaClient.stream (one streaming session) and its environment
    closedTruthy,   \* reader.closed is truthy (a WHATWG reader: closed is a Promise)
    payload,        \* the bytes the server sends as the body
    offset,         \* how many of them reader.read() has handed over
    spc,            \* idle, fetch, text, read, lines, end, unhandled
    aborted,        \* controller.signal.aborted
    errored,        \* the abort has errored the exchange: its promises reject
    cancelledAt,    \* what had been delivered when cancel was first called
    streamFault,    \* the fault that ended the session, if any
    sawDone,        \* reader.read() has reported the end of the byte stream
    decPending,     \* bytes of an unfinished character kept by the TextDecoder
    buffer,         \* let buffer: decoded text not yet split into lines
    cbRan,          \* the last line processed ran a callback of the caller
    delivered,      \* the records passed to onChunk, in order
    doneCount,      \* number of invocations of onDone
    streamFetches,  \* number of fetch() calls issued by the session
    \* ---- AIService.queryStream
    callbacks,      \* the callbacks the caller supplied
    fullResponse,   \* let fullResponse
    events,         \* the callbacks of the caller that fired, in order
    throwers,       \* the callbacks of the caller that throw when they are invoked
    \* ---- AIService.extractStructuredData / extractToolCalls applied to a text
    xText,          \* the text they are applied to
    xOut,           \* what they gave: [stage, structured, commands]
    \* ---- AIService.preprocessQuery applied to a query
    query,          \* the query it is given
    processedQuery, \* what it returned, once it has
    \* ---- a second streaming query, running at the same time
    peer            \* its locals: [payload, offset, pc, errored, cancelled,
                    \*   decPending, buffer, delivered, doneCount, full, events]

postVars == <<retryAttempts, attempt, ppc, fetchCount, timerArmed, elapsed,
              delaysWaited, pendingResp, lastFault, postOutcome>>
queryVars == <<caller, qpc, queryResult>>
\* what the caller of a streaming query is like
callerVars == <<throwers>>
streamVars == <<closedTruthy, callerVars, payload, offset, spc, aborted, errored, cancelledAt,
                streamFault, sawDone, decPending, buffer, cbRan, delivered,
                doneCount, streamFetches>>
qsVars == <<callbacks, fullResponse, events>>
extractVars == <<xText, xOut>>
prepVars == <<query, processedQuery>>
vars == <<postVars, queryVars, streamVars, qsVars, extractVars, prepVars, peer>>

\* ------------------------------------------------------------------ bounds

\* the largest configured attempt count explored
MaxAttempts == 3
\* the per-attempt timeout, in ticks of the model's clock
TimeoutTicks == 2
\* how far past the timeout the clock is followed
ClockSlack == 2

\* ------------------------------------------------------------ basic values

None == [some |-> FALSE]
Some(v) == [some |-> TRUE, v |-> v]

Last(s) == s[Len(s)]

Min(a, b) == IF a <= b THEN a ELSE b

\* ------------------------------------------------------------------ errors

MkError(cls, message) ==
    [cls |-> cls, message |-> message, hasStatus |-> FALSE, statusCode |-> 0,
     originalError |-> None]

\* new OllamaAPIError(message, statusCode?)
OllamaAPIError(message) == MkError("OllamaAPIError", message)

OllamaAPIErrorWithStatus(message, status) ==
    [cls |-> "OllamaAPIError", message |-> message, hasStatus |-> TRUE,
     statusCode |-> status, originalError |-> None]

\* new OllamaNetworkError(message, originalError): super(message) passes no status
OllamaNetworkError(message, originalError) ==
    [MkError("OllamaNetworkError", message) EXCEPT !.originalError = Some(originalError)]

\* error instanceof OllamaAPIError: OllamaNetworkError extends OllamaAPIError
InstanceOfOllamaAPIError(e) == e.cls \in {"OllamaAPIError", "OllamaNetworkError"}

InstanceOfOllamaNetworkError(e) == e.cls = "OllamaNetworkError"

\* what fetch() rejects with when the connection fails
NetworkFaults ==
    {MkError("TypeError", "fetch failed"), MkError("TypeError", "socket hang up")}

\* what fetch() rejects with when its signal is aborted
AbortError == MkError("AbortError", "This operation was aborted")

\* what response.json() rejects with on a body that is not JSON
JsonSyntaxError == MkError("SyntaxError", "Unexpected token < in JSON")

\* what response.text() / response.json() reject with when the body breaks off
BodyReadError == MkError("TypeError", "terminated")

\* kind: none, network, timeout, status, payload, badjson, bodyread;
\* detail: the text the server sent (status text, error string), if any
\* attempt: the attempt that failed
NoFault == [kind |-> "none", error |-> MkError("none", ""), detail |-> "", attempt |-> 0]

\* -------------------------------------------------- model text and JSON.parse

\* Tokens of the text a model replies with.
\* the three backquotes followed by json that open a fenced block
FenceJson == "<fence>json"
\* the three backquotes that close a fenced block
Fence == "<fence>"
StrBrowserActions == "\"browser_actions\""
StrAction == "\"action\""
StrParameters == "\"parameters\""
StrOther == "\"x\""
StringTokens == {StrBrowserActions, StrAction, StrParameters, StrOther}
NumberTokens == {"0", "1"}

\* String.prototype.trim on a token sequence
RECURSIVE TrimLeft(_)
TrimLeft(t) == IF t # <<>> /\ Head(t) = " " THEN TrimLeft(Tail(t)) ELSE t

RECURSIVE TrimRight(_)
TrimRight(t) ==
    IF t # <<>> /\ Last(t) = " " THEN TrimRight(SubSeq(t, 1, Len(t) - 1)) ELSE t

Trim(t) == TrimRight(TrimLeft(t))

RECURSIVE SkipWs(_, _)
SkipWs(t, i) == IF i <= Len(t) /\ t[i] = " " THEN SkipWs(t, i + 1) ELSE i

ParseFail == [ok |-> FALSE, next |-> 0]
ParseOk(val, next) == [ok |-> TRUE, val |-> val, next |-> next]

JNull == [k |-> "null"]
JNum(tok) == [k |-> "num", n |-> tok]
JStr(tok) == [k |-> "str", s |-> tok]
JArr(items) == [k |-> "arr", items |-> items]
JObj(keys, vals) == [k |-> "obj", keys |-> keys, vals |-> vals]

\* JSON.parse, by recursive descent: the value that starts at t[i]
RECURSIVE ParseValue(_, _)
RECURSIVE ParseElements(_, _, _)
RECURSIVE ParseMembers(_, _, _, _)

ParseValue(t, i) ==
    IF i > Len(t) THEN ParseFail
    ELSE IF t[i] \in NumberTokens THEN ParseOk(JNum(t[i]), i + 1)
    ELSE IF t[i] = "null" THEN ParseOk(JNull, i + 1)
    ELSE IF t[i] \in StringTokens THEN ParseOk(JStr(t[i]), i + 1)
    ELSE IF t[i] = "[" THEN
        LET j == SkipWs(t, i + 1) IN
        IF j <= Len(t) /\ t[j] = "]" THEN ParseOk(JArr(<<>>), j + 1)
        ELSE ParseElements(t, j, <<>>)
    ELSE IF t[i] = "{" THEN
        LET j == SkipWs(t, i + 1) IN
        IF j <= Len(t) /\ t[j] = "}" THEN ParseOk(JObj(<<>>, <<>>), j + 1)
        ELSE ParseMembers(t, j, <<>>, <<>>)
    ELSE ParseFail

\* the elements of an array, from the element that starts at t[i]
ParseElements(t, i, acc) ==
    LET r == ParseValue(t, i) IN
    IF ~r.ok THEN ParseFail
    ELSE LET j == SkipWs(t, r.next) IN
         IF j > Len(t) THEN ParseFail
         ELSE IF t[j] = "]" THEN ParseOk(JArr(Append(acc, r.val)), j + 1)
         ELSE IF t[j] = "," THEN ParseElements(t, SkipWs(t, j + 1), Append(acc, r.val))
         ELSE ParseFail

\* the members of an object, from the key that starts at t[i]
ParseMembers(t, i, keys, vals) ==
    IF i > Len(t) \/ t[i] \notin StringTokens THEN ParseFail
    ELSE LET c == SkipWs(t, i + 1) IN
         IF c > Len(t) \/ t[c] # ":" THEN ParseFail
         ELSE LET r == ParseValue(t, SkipWs(t, c + 1)) IN
              IF ~r.ok THEN ParseFail
              ELSE LET j == SkipWs(t, r.next) IN
                   IF j > Len(t) THEN ParseFail
                   ELSE IF t[j] = "}" THEN
                       ParseOk(JObj(Append(keys, t[i]), Append(vals, r.val)), j + 1)
                   ELSE IF t[j] = "," THEN
                       ParseMembers(t, SkipWs(t, j + 1), Append(keys, t[i]),
                                    Append(vals, r.val))
                   ELSE ParseFail

\* JSON.parse(t): Some(value), or None when it throws a SyntaxError
JsonParse(t) ==
    LET r == ParseValue(t, SkipWs(t, 1)) IN
    IF r.ok /\ SkipWs(t, r.next) > Len(t) THEN Some(r.val) ELSE None

\* the truthiness of a JSON value
Truthy(v) ==
    CASE v.k = "null" -> FALSE
      [] v.k = "num" -> v.n # "0"
      [] OTHER -> TRUE

\* key in obj
HasKey(obj, key) == \E i \in 1..Len(obj.keys) : obj.keys[i] = key

\* obj[key]: a repeated key keeps its last value
GetKey(obj, key) ==
    LET i == CHOOSE i \in 1..Len(obj.keys) :
                 /\ obj.keys[i] = key
                 /\ \A j \in (i + 1)..Len(obj.keys) : obj.keys[j] # key
    IN obj.vals[i]

\* value.key of any non-null JSON value: undefined unless it is an object with the key
Prop(v, key) == IF v.k = "obj" /\ HasKey(v, key) THEN Some(GetKey(v, key)) ELSE None

\* ------------------------------------------------------- AIService extraction

\* a token whose text starts with the three backquotes
StartsFence(tok) == tok \in {Fence, FenceJson}

\* can the first alternative of the regular expression match at i
FenceMatchAt(t, i) ==
    t[i] = FenceJson /\ \E j \in (i + 1)..Len(t) : StartsFence(t[j])

\* can the second alternative match at i
BraceMatchAt(t, i) ==
    t[i] = "{" /\ \E j \in (i + 1)..Len(t) : t[j] = "}"

\* response.match(/<fence>json([\s\S]*?)<fence>|{[\s\S]*}/): the leftmost match;
\* the fenced alternative is lazy, the brace alternative is greedy.
\* [found, whole (m[0]), hasGroup, group (m[1])]
RegexMatch(t) ==
    LET starts == {i \in 1..Len(t) : FenceMatchAt(t, i) \/ BraceMatchAt(t, i)} IN
    IF starts = {} THEN [found |-> FALSE]
    ELSE LET i == CHOOSE i \in starts : \A k \in starts : i <= k IN
         IF FenceMatchAt(t, i)
         THEN LET ends == {j \in (i + 1)..Len(t) : StartsFence(t[j])}
                  j == CHOOSE j \in ends : \A k \in ends : j <= k
              IN [found |-> TRUE,
                  whole |-> SubSeq(t, i, j - 1) \o <<Fence>>,
                  hasGroup |-> TRUE,
                  group |-> SubSeq(t, i + 1, j - 1)]
         ELSE LET ends == {j \in (i + 1)..Len(t) : t[j] = "}"}
                  j == CHOOSE j \in ends : \A k \in ends : j >= k
              IN [found |-> TRUE,
                  whole |-> SubSeq(t, i, j),
                  hasGroup |-> FALSE,
                  group |-> <<>>]

\* AIService.extractStructuredData: Some(the parsed value), or None (undefined)
\* when nothing matches or JSON.parse throws
extractStructuredData(response) ==
    LET m == RegexMatch(response) IN
    IF ~m.found THEN None
    ELSE LET jsonStr == IF m.hasGroup /\ m.group # <<>>
                        THEN Trim(m.group)
                        ELSE Trim(m.whole)
         IN JsonParse(jsonStr)

\* the truthiness of a value that may be undefined
TruthyOpt(o) == o.some /\ Truthy(o.v)

\* one entry of browser_actions mapped by the arrow function: it throws
\* (reading a property of null), or gives {name, parameters}
MapAction(action) ==
    IF action.k = "null" THEN [threw |-> TRUE]
    ELSE [threw |-> FALSE,
          call |-> [name |-> Prop(action, StrAction),
                    parameters |-> Prop(action, StrParameters)]]

\* AIService.extractToolCalls(structuredData), structuredData being a JSON
\* value: [threw, calls] with calls None (undefined) or Some(list)
extractToolCalls(structuredData) ==
    IF ~Truthy(structuredData) THEN [threw |-> FALSE, calls |-> None]
    ELSE IF structuredData.k \in {"num", "str"}
         \* the in operator applied to a primitive throws a TypeError
         THEN [threw |-> TRUE, calls |-> None]
    ELSE IF structuredData.k = "arr" THEN [threw |-> FALSE, calls |-> None]
    ELSE IF ~HasKey(structuredData, StrBrowserActions)
         THEN [threw |-> FALSE, calls |-> None]
    ELSE LET ba == GetKey(structuredData, StrBrowserActions) IN
         IF ba.k # "arr" THEN [threw |-> FALSE, calls |-> None]
         ELSE IF \E i \in 1..Len(ba.items) : MapAction(ba.items[i]).threw
              THEN [threw |-> TRUE, calls |-> None]
         ELSE [threw |-> FALSE,
               calls |-> Some([i \in 1..Len(ba.items) |-> MapAction(ba.items[i]).call])]

\* ------------------------------------------------------------ response bodies

\* What response.json() resolves to, by shape:
\*   chat            {message: {content}, done, ...}
\*   error           {error: <string>}
\*   errorNotString  {error: 42}
\*   null            null
\*   other           an object with neither error nor message (a model catalog)
Body(shape, content, error) == [shape |-> shape, content |-> content, error |-> error]

NoBody == Body("none", <<>>, "")

\* the structured reply of the system prompt, in a fenced block after a word
FencedReply ==
    <<"w", FenceJson, "{", StrBrowserActions, ":", "[", "{", StrAction, ":",
      StrOther, ",", StrParameters, ":", "{", "}", "}", "]", "}", Fence>>

\* the texts a model reply is drawn from
ChatTexts ==
    { <<"w">>,
      <<"{", "}">>,
      FencedReply,
      <<"{", StrBrowserActions, ":", "[", "null", "]", "}">>,
      <<"w", "{", "w", "}">>,
      <<FenceJson, "1", Fence>> }

ErrorStrings == {"model not found", "out of memory"}

Bodies ==
    {Body("chat", t, "") : t \in ChatTexts}
        \cup {Body("error", <<>>, e) : e \in ErrorStrings}
        \cup {Body("errorNotString", <<>>, ""), Body("null", <<>>, ""),
              Body("other", <<>>, "")}

\* what response.text() resolves to on a non-success status
StatusTexts == {"Internal server error", "bad request"}

\* non-success statuses: a client error and a server error
BadStatuses == {400, 500}

\* a type guard that takes no body for an error payload
isErrorResponseNever(response) == FALSE

\* lines 23-30: isErrorResponse(response)
isErrorResponse(response) ==
    /\ response.shape \in {"chat", "error", "errorNotString", "null", "other"}
       \* typeof response === "object"
    /\ response.shape # "null"
    /\ response.shape \in {"error", "errorNotString"}   \* "error" in response
    /\ response.shape = "error"                         \* typeof error === "string"

\* ------------------------------------------------------------ OllamaClient.post

\* parseInt of a setting that holds no number gives NaN; it is kept as a number
\* outside the range explored, and the comparisons of the code go through
\* Less and AtLeast, which are false for it as < and >= are for NaN
NaN == -(MaxAttempts + 2)

\* a < b
Less(a, b) == a # NaN /\ b # NaN /\ a < b

\* a >= b
AtLeast(a, b) == a # NaN /\ b # NaN /\ a >= b

\* what parseInt(process.env.OLLAMA_RETRY_ATTEMPTS || '3', 10) can give
RetryCounts == (-1..MaxAttempts) \cup {NaN}

PostPending == {"fetching", "text", "json"}

NoOutcome == [kind |-> "none", value |-> NoBody, error |-> MkError("none", "")]
Returned(value) == [kind |-> "return", value |-> value, error |-> MkError("none", "")]
Threw(error) == [kind |-> "throw", value |-> NoBody, error |-> error]

\* lines 96-106: a new controller and timer, then fetch
StartAttempt ==
    /\ attempt' = attempt + 1
    /\ fetchCount' = fetchCount + 1
    /\ timerArmed' = TRUE
    /\ elapsed' = 0
    /\ ppc' = "fetching"
    /\ pendingResp' = [ok |-> FALSE, status |-> 0]

\* a loop that tests its condition after the attempt, not before
PostBeginTestsAfter ==
    StartAttempt /\ UNCHANGED <<postOutcome, lastFault, delaysWaited, retryAttempts>>

\* lines 89-92 and 145: the loop test on entry
PostBegin ==
    IF Less(0, retryAttempts)
    THEN StartAttempt /\ UNCHANGED <<postOutcome, lastFault, delaysWaited, retryAttempts>>
    ELSE /\ ppc' = "threw"
         /\ postOutcome' = Threw(OllamaAPIError("Maximum retry attempts reached"))
         /\ UNCHANGED <<attempt, fetchCount, timerArmed, elapsed, pendingResp,
                        lastFault, delaysWaited, retryAttempts>>

\* a rethrow that wraps every error as a network error
RethrownAlwaysWrapped(error) ==
    OllamaNetworkError("Network error: " \o error.message, error)

\* a rethrow that hands on the error of the last attempt as it is
RethrownAsCaught(error) == error

\* lines 127-135: what the last attempt rethrows
Rethrown(error) ==
    IF InstanceOfOllamaAPIError(error)
    THEN error
    ELSE OllamaNetworkError("Network error: " \o error.message, error)

\* the catch block of a client that gives up on a client error (status 4xx)
PostCatchNoRetryOnClientError(error, kind, detail) ==
    /\ lastFault' = [kind |-> kind, error |-> error, detail |-> detail, attempt |-> attempt]
    /\ IF attempt >= retryAttempts \/ (error.hasStatus /\ error.statusCode < 500)
       THEN ppc' = "threw" /\ postOutcome' = Threw(Rethrown(error))
       ELSE ppc' = "delay" /\ UNCHANGED postOutcome
    /\ UNCHANGED <<attempt, fetchCount, delaysWaited, retryAttempts>>

\* a catch block that waits the retry delay after the last attempt as well
PostCatchAlwaysDelays(error, kind, detail) ==
    /\ lastFault' = [kind |-> kind, error |-> error, detail |-> detail, attempt |-> attempt]
    /\ ppc' = "delay"
    /\ UNCHANGED <<attempt, fetchCount, delaysWaited, retryAttempts, postOutcome>>

\* lines 124-141: the catch block, with the fault that was caught
PostCatch(error, kind, detail) ==
    /\ lastFault' = [kind |-> kind, error |-> error, detail |-> detail, attempt |-> attempt]
    /\ IF AtLeast(attempt, retryAttempts)
       THEN ppc' = "threw" /\ postOutcome' = Threw(Rethrown(error))
       ELSE ppc' = "delay" /\ UNCHANGED postOutcome
    /\ UNCHANGED <<attempt, fetchCount, delaysWaited, retryAttempts>>

\* the clock advances while an attempt is pending; the armed timer fires at its deadline
Tick ==
    /\ ppc \in PostPending
    /\ elapsed < TimeoutTicks + ClockSlack
    /\ (ppc = "fetching" /\ timerArmed) => elapsed < TimeoutTicks
    /\ elapsed' = elapsed + 1
    /\ UNCHANGED <<retryAttempts, attempt, ppc, fetchCount, timerArmed, delaysWaited,
                   pendingResp, lastFault, postOutcome, queryVars, streamVars, qsVars, extractVars, prepVars, peer>>

\* line 97: the timer fires, the controller aborts, fetch rejects
TimerFire ==
    /\ ppc = "fetching" /\ timerArmed
    /\ elapsed >= TimeoutTicks
    /\ timerArmed' = FALSE
    /\ PostCatch(AbortError, "timeout", "")
    /\ UNCHANGED <<elapsed, pendingResp, queryVars, streamVars, qsVars, extractVars, prepVars, peer>>

\* line 99: fetch rejects (connection failure); the timer is not cleared
FetchReject ==
    /\ ppc = "fetching"
    /\ \E e \in NetworkFaults : PostCatch(e, "network", "")
    /\ UNCHANGED <<timerArmed, elapsed, pendingResp, queryVars, streamVars, qsVars, extractVars, prepVars, peer>>

\* lines 99-116: fetch resolves with the status line; the timer is cleared and
\* the body is awaited
FetchResolve ==
    /\ ppc = "fetching"
    /\ \E ok \in BOOLEAN : \E st \in BadStatuses :
          /\ pendingResp' = [ok |-> ok, status |-> IF ok THEN 200 ELSE st]
          /\ ppc' = IF ok THEN "json" ELSE "text"
    /\ timerArmed' = FALSE
    /\ UNCHANGED <<retryAttempts, attempt, fetchCount, elapsed, delaysWaited,
                   lastFault, postOutcome, queryVars, streamVars, qsVars, extractVars, prepVars, peer>>

\* lines 111-113: the text of a non-success response arrives
TextResolve ==
    /\ ppc = "text"
    /\ \E text \in StatusTexts :
          PostCatch(OllamaAPIErrorWithStatus("API error: " \o text, pendingResp.status),
                    "status", text)
    /\ UNCHANGED <<timerArmed, elapsed, pendingResp, queryVars, streamVars, qsVars, extractVars, prepVars, peer>>

\* line 111: reading the text of a non-success response fails
TextReject ==
    /\ ppc = "text"
    /\ PostCatch(BodyReadError, "bodyread", "")
    /\ UNCHANGED <<timerArmed, elapsed, pendingResp, queryVars, streamVars, qsVars, extractVars, prepVars, peer>>

\* a loop that keeps a good body only on its last attempt and tries again before
JsonResolveKeepsTrying ==
    /\ ppc = "json"
    /\ \E result \in Bodies :
          IF isErrorResponse(result)
          THEN PostCatch(OllamaAPIError("API returned error: " \o result.error), "payload",
                         result.error)
          ELSE /\ IF attempt < retryAttempts
                  THEN ppc' = "delay" /\ UNCHANGED postOutcome
                  ELSE ppc' = "returned" /\ postOutcome' = Returned(result)
               /\ UNCHANGED <<retryAttempts, attempt, fetchCount, delaysWaited, lastFault>>
    /\ UNCHANGED <<timerArmed, elapsed, pendingResp, queryVars, streamVars, qsVars, extractVars, prepVars, peer>>

\* lines 116-123: the body of a success response arrives and parses
JsonResolve ==
    /\ ppc = "json"
    /\ \E result \in Bodies :
          IF isErrorResponse(result)
          THEN PostCatch(OllamaAPIError("API returned error: " \o result.error), "payload",
                         result.error)
          ELSE /\ ppc' = "returned"
               /\ postOutcome' = Returned(result)
               /\ UNCHANGED <<retryAttempts, attempt, fetchCount, delaysWaited, lastFault>>
    /\ UNCHANGED <<timerArmed, elapsed, pendingResp, queryVars, streamVars, qsVars, extractVars, prepVars, peer>>

\* line 116: the body of a success response is not JSON, or breaks off
JsonReject ==
    /\ ppc = "json"
    /\ \E e \in {JsonSyntaxError, BodyReadError} :
          PostCatch(e, IF e = JsonSyntaxError THEN "badjson" ELSE "bodyread", "")
    /\ UNCHANGED <<timerArmed, elapsed, pendingResp, queryVars, streamVars, qsVars, extractVars, prepVars, peer>>

\* line 140 and lines 91-92: the retry delay elapses and the next attempt starts
DelayElapsed ==
    /\ ppc = "delay"
    /\ delaysWaited' = delaysWaited + 1
    /\ IF Less(attempt, retryAttempts)
       THEN StartAttempt /\ UNCHANGED postOutcome
       ELSE /\ ppc' = "threw"
            /\ postOutcome' = Threw(OllamaAPIError("Maximum retry attempts reached"))
            /\ UNCHANGED <<attempt, fetchCount, timerArmed, elapsed, pendingResp>>
    /\ UNCHANGED <<retryAttempts, lastFault, queryVars, streamVars, qsVars, extractVars, prepVars, peer>>

\* ------------------------------------------------------------- AIService.query

BackendErrorText == <<"I encountered an error communicating with my AI backend.">>
UnexpectedErrorText == <<"I encountered an unexpected error.">>

QueryReturned(text, structuredOutput, toolCalls, hasError, error) ==
    [kind |-> "return", text |-> text, structuredOutput |-> structuredOutput,
     toolCalls |-> toolCalls, hasError |-> hasError, error |-> error]

\* a fault that leaves query as a rejected promise
QueryThrew(error) == [kind |-> "throw", error |-> error]

\* a catch block that converts the client errors only and rethrows the rest
queryCatchClientErrorsOnly(error) ==
    IF InstanceOfOllamaAPIError(error) \/ InstanceOfOllamaNetworkError(error)
    THEN QueryReturned(BackendErrorText, None, None, TRUE, error.message)
    ELSE QueryThrew(error)

\* lines 524-538: the catch block of query
queryCatch(error) ==
    IF InstanceOfOllamaAPIError(error) \/ InstanceOfOllamaNetworkError(error)
    THEN QueryReturned(BackendErrorText, None, None, TRUE, error.message)
    ELSE QueryReturned(UnexpectedErrorText, None, None, TRUE, error.message)

\* lines 510-523: what query does with the response of chat
queryThen(response) ==
    IF response.shape # "chat"
    THEN \* response.message is undefined (or response is null)
         queryCatch(MkError("TypeError", "Cannot read properties of undefined"))
    ELSE LET responseText == response.content
             structuredOutput == extractStructuredData(responseText)
             toolCalls == IF TruthyOpt(structuredOutput)
                          THEN extractToolCalls(structuredOutput.v)
                          ELSE [threw |-> FALSE, calls |-> None]
         IN IF toolCalls.threw
            THEN queryCatch(MkError("TypeError", "Cannot read properties of null"))
            ELSE QueryReturned(responseText, structuredOutput, toolCalls.calls, FALSE, "")

\* lines 494-539: query, once chat has returned or thrown
queryAfterChat(outcome) ==
    IF outcome.kind = "return" THEN queryThen(outcome.value) ELSE queryCatch(outcome.error)

\* listModels, generate or chat is called directly by a client of OllamaClient
ClientCall ==
    /\ ppc = "idle" /\ qpc = "idle"
    /\ caller' = "client"
    /\ PostBegin
    /\ UNCHANGED <<qpc, queryResult, streamVars, qsVars, extractVars, prepVars, peer>>

\* lines 494-508: query is called; a query that is not a string makes
\* preprocessQuery throw before chat is called
QueryCall ==
    /\ ppc = "idle" /\ qpc = "idle"
    /\ caller' = "query"
    /\ \E isString \in BOOLEAN :
          IF isString
          THEN /\ qpc' = "awaiting"
               /\ PostBegin
               /\ UNCHANGED queryResult
          ELSE /\ qpc' = "done"
               /\ queryResult' = queryCatch(MkError("TypeError", "query.trim is not a function"))
               /\ UNCHANGED postVars
    /\ UNCHANGED <<streamVars, qsVars, extractVars, prepVars, peer>>

\* lines 504-538: chat settles and query continues
QueryResume ==
    /\ qpc = "awaiting"
    /\ ppc \in {"returned", "threw"}
    /\ qpc' = "done"
    /\ queryResult' = queryAfterChat(postOutcome)
    /\ UNCHANGED <<postVars, caller, streamVars, qsVars, extractVars, prepVars, peer>>

\* ------------------------------------------------- the bytes of a stream body

\* Bytes are tokens: LF is the newline, C3 A9 is the two-byte encoding of one
\* character, M[ and ]M (]D with done: true) are the JSON text around the content
\* of a chat record, {"message":{"content":"..."},"done":false}.
LF == "LF"
Quote == "\""
RecOpen == "M["
RecClose == "]M"
RecCloseDone == "]D"
Digits == {"1", "2"}

\* the tokens that cannot stand inside a JSON string of a line
SyntaxTokens == {LF, Quote, RecOpen, RecClose, RecCloseDone}

\* JSON.stringify of a chat record
RecordLine(content, done) ==
    <<RecOpen>> \o content \o <<IF done THEN RecCloseDone ELSE RecClose>>

\* the lines a body is made of: records (one with a list of actions, one with an
\* empty text and done: true), a number, a string with a two-byte character, a
\* malformed line and a blank one
Segments ==
    { RecordLine(<<"w">>, FALSE),
      RecordLine(<<"{">>, FALSE),
      RecordLine(<<"}">>, TRUE),
      RecordLine(<<"{", StrBrowserActions, ":", "[", "null", "]", "}">>, FALSE),
      RecordLine(<<"{", StrBrowserActions, ":", "[", "{", StrAction, ":", StrOther,
                   "}", "]", "}">>, FALSE),
      RecordLine(<<>>, TRUE),
      <<"1", "2">>,
      <<Quote, "C3", "A9", Quote>>,
      <<"x">>,
      <<" ">> }

\* the largest number of lines of a body
MaxLines == 2
\* the largest number of bytes one read hands over
MaxChunk == 5

\* bodies of at most n lines, each ended by a newline
RECURSIVE TerminatedBodies(_)
TerminatedBodies(n) ==
    IF n = 0 THEN {<<>>}
    ELSE LET shorter == TerminatedBodies(n - 1) IN
         shorter \cup {b \o seg \o <<LF>> : b \in shorter, seg \in Segments}

\* the bodies explored: the last line may lack its newline
Payloads ==
    TerminatedBodies(MaxLines)
        \cup {b \o seg : b \in TerminatedBodies(MaxLines - 1), seg \in Segments}

\* the bodies with one line less, explored with the callers that leave a
\* callback out or whose onComplete throws
ShortPayloads ==
    TerminatedBodies(MaxLines - 1)
        \cup {b \o seg : b \in TerminatedBodies(MaxLines - 2), seg \in Segments}

\* decoder.decode(value) without the stream option: an unfinished character at
\* the end of a chunk is not kept, it decodes to U+FFFD
RECURSIVE DecodeNoCarry(_, _, _)
DecodeNoCarry(pending, bytes, out) ==
    IF bytes = <<>>
    THEN [text |-> IF pending # <<>> THEN Append(out, "U+FFFD") ELSE out,
          pending |-> <<>>]
    ELSE IF Head(bytes) = "C3"
         THEN DecodeNoCarry(<<"C3">>, Tail(bytes),
                            IF pending # <<>> THEN Append(out, "U+FFFD") ELSE out)
    ELSE IF Head(bytes) = "A9"
         THEN DecodeNoCarry(<<>>, Tail(bytes),
                            Append(out, IF pending = <<"C3">> THEN "e-acute" ELSE "U+FFFD"))
    ELSE DecodeNoCarry(<<>>, Tail(bytes),
                       Append(IF pending # <<>> THEN Append(out, "U+FFFD") ELSE out,
                              Head(bytes)))

\* decoder.decode(value, {stream: true}): the characters of the bytes, an
\* unfinished character being kept for the next call; a byte that cannot
\* continue or start a character decodes to U+FFFD
RECURSIVE Decode(_, _, _)
Decode(pending, bytes, out) ==
    IF bytes = <<>> THEN [text |-> out, pending |-> pending]
    ELSE LET b == Head(bytes)
             flushed == IF pending # <<>> THEN Append(out, "U+FFFD") ELSE out
         IN IF b = "C3" THEN Decode(<<"C3">>, Tail(bytes), flushed)
            ELSE IF b = "A9"
                 THEN IF pending = <<"C3">>
                      THEN Decode(<<>>, Tail(bytes), Append(out, "e-acute"))
                      ELSE Decode(<<>>, Tail(bytes), Append(out, "U+FFFD"))
            ELSE Decode(<<>>, Tail(bytes), Append(flushed, b))

\* JSON.parse of a line of the body: a number, a string, or a chat record
StreamJsonParse(text) ==
    LET u == Trim(text)
        n == Len(u)
        inner == SubSeq(u, 2, n - 1)
        plain == \A i \in 1..Len(inner) : inner[i] \notin SyntaxTokens
    IN IF n >= 1 /\ \A i \in 1..n : u[i] \in Digits
       THEN Some([k |-> "num", digits |-> u])
       ELSE IF n >= 2 /\ u[1] = Quote /\ u[n] = Quote /\ plain
       THEN Some([k |-> "str", chars |-> inner])
       ELSE IF n >= 2 /\ u[1] = RecOpen /\ u[n] \in {RecClose, RecCloseDone} /\ plain
       THEN Some([k |-> "rec", content |-> inner, done |-> u[n] = RecCloseDone])
       ELSE None

\* a search that gives the place of the last newline of the buffer
IndexOfNewlineLast(buf) ==
    IF \E i \in 1..Len(buf) : buf[i] = LF
    THEN CHOOSE i \in 1..Len(buf) : buf[i] = LF /\ \A j \in (i + 1)..Len(buf) : buf[j] # LF
    ELSE 0

\* buffer.indexOf("\n"), counted from 1; 0 when there is none
IndexOfNewline(buf) ==
    IF \E i \in 1..Len(buf) : buf[i] = LF
    THEN CHOOSE i \in 1..Len(buf) : buf[i] = LF /\ \A j \in 1..(i - 1) : buf[j] # LF
    ELSE 0

\* a line processing that forgets the partial line left after the last newline
RestOfBufferDropPartial(buf, newlineIndex) ==
    LET rest == SubSeq(buf, newlineIndex + 1, Len(buf)) IN
    IF IndexOfNewline(rest) = 0 THEN <<>> ELSE rest

\* line 220: buffer.slice(newlineIndex + 1)
RestOfBuffer(buf, newlineIndex) == SubSeq(buf, newlineIndex + 1, Len(buf))

\* line 219: buffer.slice(0, newlineIndex).trim()
FirstLine(buf, newlineIndex) == Trim(SubSeq(buf, 1, newlineIndex - 1))

\* lines 222-229: the record of a line, if it has one; a malformed line is
\* logged and dropped
LineRecord(line) == IF line = <<>> THEN None ELSE StreamJsonParse(line)

\* lines 197-204: the record of the text left when the byte stream ends
ResidueRecord(buf) == IF Trim(buf) = <<>> THEN None ELSE StreamJsonParse(buf)

\* --------------------------------------- the callbacks AIService gives to stream

AllCallbacks ==
    {"onTextUpdate", "onStructuredOutputUpdate", "onToolCallsUpdate", "onComplete",
     "onError"}

\* the sets of callbacks a caller of queryStream supplies
CallbackSets == {AllCallbacks, AllCallbacks \ {"onStructuredOutputUpdate"}}

\* the callbacks of a caller that throw: none, or its onComplete
ThrowerSets == {{}, {"onComplete"}}

Ev(cb, arg) == [cb |-> cb, arg |-> arg]

Fire(cbs, cb, arg) == IF cb \in cbs THEN <<Ev(cb, arg)>> ELSE <<>>

\* lines 590-594: the tool calls of a structured output go to onToolCallsUpdate
onChunkToolCalls(full2, structuredOutput, toolCalls, cbs) ==
    LET evs == Fire(cbs, "onTextUpdate", full2)
                   \o Fire(cbs, "onStructuredOutputUpdate", structuredOutput.v)
    IN IF toolCalls.threw
       THEN [threw |-> TRUE, full |-> full2, evs |-> evs]
       ELSE [threw |-> FALSE, full |-> full2,
             evs |-> IF toolCalls.calls.some
                     THEN evs \o Fire(cbs, "onToolCallsUpdate", toolCalls.calls.v)
                     ELSE evs]

\* lines 582-595: the text so far goes to onTextUpdate, its structured output,
\* when there is one and the caller listens for it, to onStructuredOutputUpdate
onChunkAppended(full2, structuredOutput, cbs) ==
    IF ~(TruthyOpt(structuredOutput) /\ "onStructuredOutputUpdate" \in cbs)
    THEN [threw |-> FALSE, full |-> full2, evs |-> Fire(cbs, "onTextUpdate", full2)]
    ELSE onChunkToolCalls(full2, structuredOutput,
                          extractToolCalls(structuredOutput.v), cbs)

\* an onChunk closure that hands over the fragment, not the accumulated text
onChunkClosureFragmentOnly(chunk, full, cbs) ==
    IF chunk.k # "rec" \/ chunk.content = <<>>
    THEN [threw |-> FALSE, full |-> full, evs |-> <<>>]
    ELSE [threw |-> FALSE, full |-> full \o chunk.content,
          evs |-> Fire(cbs, "onTextUpdate", chunk.content)]

\* lines 575-596: the onChunk closure: [threw, full, evs]
onChunkClosure(chunk, full, cbs) ==
    IF chunk.k # "rec" \/ chunk.content = <<>>
    THEN [threw |-> FALSE, full |-> full, evs |-> <<>>]
    ELSE onChunkAppended(full \o chunk.content,
                         extractStructuredData(full \o chunk.content), cbs)

\* lines 604-613: the result handed to onComplete
onDoneResult(full, structuredOutput, toolCalls, cbs, thr) ==
    IF toolCalls.threw
    THEN [threw |-> TRUE, evs |-> <<>>]
    ELSE [threw |-> "onComplete" \in (cbs \cap thr),
          evs |-> Fire(cbs, "onComplete",
                       QueryReturned(full, structuredOutput, toolCalls.calls,
                                     FALSE, ""))]

\* lines 599-602: the tool calls of the final structured output
onDoneToolCalls(full, structuredOutput, cbs, thr) ==
    onDoneResult(full, structuredOutput,
                 IF TruthyOpt(structuredOutput)
                 THEN extractToolCalls(structuredOutput.v)
                 ELSE [threw |-> FALSE, calls |-> None],
                 cbs, thr)

\* an onDone closure that runs no extraction of its own on the text
onDoneClosureNoExtraction(full, cbs, thr) == onDoneToolCalls(full, None, cbs, thr)

\* lines 597-614: the onDone closure: [threw, evs]; it throws when the final
\* extraction or the onComplete of the caller throws
onDoneClosure(full, cbs, thr) ==
    onDoneToolCalls(full, extractStructuredData(full), cbs, thr)

\* --------------------------------------------------------- OllamaClient.stream

NotCancelled == [called |-> FALSE, delivered |-> 0, doneCount |-> 0]

\* a catch block that starts the exchange again while attempts are left
StreamCatchRetrying(fault) ==
    /\ streamFault' = fault
    /\ cbRan' = FALSE
    /\ IF streamFetches < retryAttempts
       THEN /\ spc' = "fetch"
            /\ streamFetches' = streamFetches + 1
            /\ UNCHANGED <<doneCount, events>>
       ELSE /\ spc' = "end"
            /\ doneCount' = doneCount + 1
            /\ events' = events \o onDoneClosure(fullResponse, callbacks, throwers).evs
            /\ UNCHANGED streamFetches
    /\ UNCHANGED <<closedTruthy, callerVars, extractVars, prepVars, peer, payload, offset, aborted, errored, cancelledAt,
                   sawDone, decPending, buffer, delivered, callbacks, fullResponse>>

\* a stream that waits for the exchange and rejects when it fails, so that the
\* failure comes out through the catch of queryStream (lines 618-637)
StreamCatchRejecting(fault) ==
    /\ streamFault' = fault
    /\ events' = events \o Fire(callbacks, "onError", MkError("Error", fault))
                        \o Fire(callbacks, "onComplete",
                                QueryReturned(BackendErrorText, None, None, TRUE, fault))
    /\ spc' = "setupFailed"
    /\ cbRan' = FALSE
    /\ UNCHANGED <<closedTruthy, callerVars, extractVars, prepVars, peer, payload, offset, aborted, errored, cancelledAt,
                   sawDone, decPending, buffer, delivered, doneCount, streamFetches,
                   callbacks, fullResponse>>

\* lines 232-244: the catch block of the task: onDone is invoked; a throw of
\* onDone leaves the task as an unhandled rejection
StreamCatch(fault) ==
    LET r == onDoneClosure(fullResponse, callbacks, throwers) IN
    /\ streamFault' = fault
    /\ doneCount' = doneCount + 1
    /\ events' = events \o r.evs
    /\ spc' = IF r.threw THEN "unhandled" ELSE "end"
    /\ cbRan' = FALSE
    /\ UNCHANGED <<closedTruthy, callerVars, extractVars, prepVars, peer, payload, offset, aborted, errored, cancelledAt,
                   sawDone, decPending, buffer, delivered, streamFetches,
                   callbacks, fullResponse>>

\* lines 547-617 and 167-176: queryStream is called with a string; chatStream
\* starts the task, which issues its fetch, and the cancel function is returned
QueryStreamCall ==
    /\ spc = "idle"
    /\ spc' = "fetch"
    /\ streamFetches' = streamFetches + 1
    /\ UNCHANGED <<closedTruthy, callerVars, extractVars, prepVars, peer, payload, offset, aborted, errored, cancelledAt,
                   streamFault, sawDone, decPending, buffer, cbRan, delivered,
                   doneCount, qsVars, postVars, queryVars>>

\* a catch block that returns the no-op function and tells the caller nothing
QueryStreamSetupFailsSilently ==
    /\ spc = "idle"
    /\ spc' = "setupFailed"
    /\ UNCHANGED <<closedTruthy, callerVars, extractVars, prepVars, peer, payload, offset, aborted, errored, cancelledAt,
                   streamFault, sawDone, decPending, buffer, cbRan, delivered,
                   doneCount, streamFetches, qsVars, postVars, queryVars>>

\* lines 558 and 618-637: queryStream is called with a query that is not a
\* string: preprocessQuery throws, onError and onComplete fire, no task is
\* started and the no-op function is returned; when the onComplete of the caller
\* throws, queryStream rejects instead and nothing is returned
QueryStreamSetupFails ==
    /\ spc = "idle"
    /\ spc' = IF "onComplete" \in (callbacks \cap throwers)
              THEN "setupRejected" ELSE "setupFailed"
    /\ LET error == MkError("TypeError", "query.trim is not a function") IN
       events' = events \o Fire(callbacks, "onError", error)
                        \o Fire(callbacks, "onComplete",
                                QueryReturned(BackendErrorText, None, None, TRUE,
                                              error.message))
    /\ UNCHANGED <<closedTruthy, callerVars, extractVars, prepVars, peer, payload, offset, aborted, errored, cancelledAt,
                   streamFault, sawDone, decPending, buffer, cbRan, delivered,
                   doneCount, streamFetches, callbacks, fullResponse, postVars,
                   queryVars>>

\* lines 633-636: the no-op function returned after a failed setup is called
CancelAfterSetupFailure ==
    /\ spc = "setupFailed"
    /\ ~cancelledAt.called
    /\ cancelledAt' = [called |-> TRUE, delivered |-> Len(delivered),
                       doneCount |-> doneCount]
    /\ UNCHANGED <<closedTruthy, callerVars, extractVars, prepVars, peer, payload, offset, spc, aborted, errored,
                   streamFault, sawDone, decPending, buffer, cbRan, delivered,
                   doneCount, streamFetches, qsVars, postVars, queryVars>>

\* line 169: fetch rejects (connection failure)
StreamFetchReject ==
    /\ spc = "fetch" /\ ~errored
    /\ StreamCatch("connect")
    /\ UNCHANGED <<postVars, queryVars>>

\* lines 169-192: fetch resolves with a success status and a body; the reader
\* is taken and the loop test reads reader.closed
StreamFetchResolveOk ==
    /\ spc = "fetch" /\ ~errored
    /\ spc' = IF closedTruthy THEN "end" ELSE "read"
    /\ UNCHANGED <<closedTruthy, callerVars, extractVars, prepVars, peer, payload, offset, aborted, errored, cancelledAt,
                   streamFault, sawDone, decPending, buffer, cbRan, delivered,
                   doneCount, streamFetches, qsVars, postVars, queryVars>>

\* lines 178-179: fetch resolves with a non-success status; its text is awaited
StreamFetchResolveBad ==
    /\ spc = "fetch" /\ ~errored
    /\ spc' = "text"
    /\ UNCHANGED <<closedTruthy, callerVars, extractVars, prepVars, peer, payload, offset, aborted, errored, cancelledAt,
                   streamFault, sawDone, decPending, buffer, cbRan, delivered,
                   doneCount, streamFetches, qsVars, postVars, queryVars>>

\* lines 184-186: fetch resolves with a success status and no body
StreamFetchResolveNullBody ==
    /\ spc = "fetch" /\ ~errored
    /\ StreamCatch("nullbody")
    /\ UNCHANGED <<postVars, queryVars>>

\* lines 179-181: the text of the non-success response settles and the task throws
StreamTextSettles ==
    /\ spc = "text" /\ ~errored
    /\ StreamCatch("status")
    /\ UNCHANGED <<postVars, queryVars>>

\* lines 193 and 213-218: a read hands over the next bytes (possibly none)
ReadChunk ==
    /\ spc = "read" /\ ~errored
    /\ \E n \in 0..Min(MaxChunk, Len(payload) - offset) :
          LET d == Decode(decPending, SubSeq(payload, offset + 1, offset + n), <<>>)
              buf == buffer \o d.text
          IN /\ offset' = offset + n
             /\ decPending' = d.pending
             /\ buffer' = buf
             /\ spc' = IF IndexOfNewline(buf) # 0 THEN "lines" ELSE "read"
    /\ cbRan' = FALSE
    /\ UNCHANGED <<closedTruthy, callerVars, extractVars, prepVars, peer, payload, aborted, errored, cancelledAt, streamFault,
                   sawDone, delivered, doneCount, streamFetches, qsVars, postVars,
                   queryVars>>

\* lines 218-230: one turn of the line loop
ProcessLine ==
    /\ spc = "lines"
    /\ LET newlineIndex == IndexOfNewline(buffer)
           line == FirstLine(buffer, newlineIndex)
           rest == RestOfBuffer(buffer, newlineIndex)
           rec == LineRecord(line)
           r == IF rec.some
                THEN onChunkClosure(rec.v, fullResponse, callbacks)
                ELSE [threw |-> FALSE, full |-> fullResponse, evs |-> <<>>]
       IN /\ buffer' = rest
          /\ delivered' = IF rec.some THEN Append(delivered, rec.v) ELSE delivered
          /\ fullResponse' = r.full
          /\ events' = events \o r.evs
          /\ cbRan' = (r.evs # <<>>)
          /\ spc' = IF IndexOfNewline(rest) # 0 THEN "lines" ELSE "read"
    /\ UNCHANGED <<closedTruthy, callerVars, extractVars, prepVars, peer, payload, offset, aborted, errored, cancelledAt,
                   streamFault, sawDone, decPending, doneCount, streamFetches,
                   callbacks, postVars, queryVars>>

\* lines 195-211: the byte stream has ended: the residue of the buffer gets its
\* parse, then onDone is invoked; if onDone throws, the catch block (lines
\* 241-243) invokes it again
ReadDone ==
    /\ spc = "read" /\ ~errored
    /\ offset = Len(payload)
    /\ LET rec == ResidueRecord(buffer)
           r == IF rec.some
                THEN onChunkClosure(rec.v, fullResponse, callbacks)
                ELSE [threw |-> FALSE, full |-> fullResponse, evs |-> <<>>]
           d == onDoneClosure(r.full, callbacks, throwers)
       IN /\ delivered' = IF rec.some THEN Append(delivered, rec.v) ELSE delivered
          /\ fullResponse' = r.full
          /\ events' = events \o r.evs \o d.evs \o (IF d.threw THEN d.evs ELSE <<>>)
          /\ doneCount' = IF d.threw THEN doneCount + 2 ELSE doneCount + 1
          /\ spc' = IF d.threw THEN "unhandled" ELSE "end"
    /\ sawDone' = TRUE
    /\ cbRan' = FALSE
    /\ UNCHANGED <<closedTruthy, callerVars, extractVars, prepVars, peer, payload, offset, aborted, errored, cancelledAt,
                   streamFault, decPending, buffer, streamFetches, callbacks,
                   postVars, queryVars>>

\* line 193: a read rejects (the connection breaks in the middle of the body)
ReadFail ==
    /\ spc = "read" /\ ~errored
    /\ StreamCatch("midstream")
    /\ UNCHANGED <<postVars, queryVars>>

\* lines 248-251: the caller calls the cancel function, while the task waits, or
\* from inside a callback that the line loop has just run, or after the end.
\* The abort errors the exchange unless its body had already been closed.
Cancel ==
    /\ ~cancelledAt.called
    /\ \/ spc \in {"fetch", "text", "read", "end", "unhandled"}
       \/ spc = "lines" /\ cbRan
    /\ aborted' = TRUE
    /\ cancelledAt' = [called |-> TRUE, delivered |-> Len(delivered),
                       doneCount |-> doneCount]
    /\ \E e \in BOOLEAN :
          /\ spc \in {"fetch", "text", "read"} => e
          /\ spc \in {"end", "unhandled"} => ~e
          /\ (spc = "lines" /\ offset < Len(payload)) => e
          /\ errored' = e
    /\ UNCHANGED <<closedTruthy, callerVars, extractVars, prepVars, peer, payload, offset, spc, streamFault, sawDone,
                   decPending, buffer, cbRan, delivered, doneCount, streamFetches,
                   qsVars, postVars, queryVars>>

\* lines 169, 179, 193: the promise the task waits for rejects with the AbortError
AbortReject ==
    /\ spc \in {"fetch", "text", "read"} /\ errored
    /\ StreamCatch("abort")
    /\ UNCHANGED <<postVars, queryVars>>

\* ------------------------------------------------------ the single-shot system

\* no single-shot call in progress
PostIdle ==
    /\ attempt = 0
    /\ ppc = "idle"
    /\ fetchCount = 0
    /\ timerArmed = FALSE
    /\ elapsed = 0
    /\ delaysWaited = 0
    /\ pendingResp = [ok |-> FALSE, status |-> 0]
    /\ lastFault = NoFault
    /\ postOutcome = NoOutcome
    /\ caller = "none"
    /\ qpc = "idle"
    /\ queryResult = [kind |-> "none"]

\* preprocessQuery has not been called
PrepIdle == query = <<>> /\ processedQuery = None

\* no extraction asked for
NoExtraction ==
    [stage |-> 0, structured |-> None, commands |-> [threw |-> FALSE, calls |-> None]]

ExtractIdle == xText = <<>> /\ xOut = NoExtraction

\* lines 162-190 and 567: the locals of a streaming query that has not started
PeerLocals(bytes) ==
    [payload |-> bytes, offset |-> 0, pc |-> "idle", errored |-> FALSE,
     cancelled |-> FALSE, decPending |-> <<>>, buffer |-> <<>>, delivered |-> <<>>,
     doneCount |-> 0, full |-> <<>>, events |-> <<>>]

\* no second streaming query
PeerIdle == peer = PeerLocals(<<>>)

\* no streaming session in progress
StreamIdle ==
    /\ offset = 0
    /\ spc = "idle"
    /\ aborted = FALSE
    /\ errored = FALSE
    /\ cancelledAt = NotCancelled
    /\ streamFault = "none"
    /\ sawDone = FALSE
    /\ decPending = <<>>
    /\ buffer = <<>>
    /\ cbRan = FALSE
    /\ delivered = <<>>
    /\ doneCount = 0
    /\ streamFetches = 0
    /\ fullResponse = <<>>
    /\ events = <<>>

InitPost ==
    /\ retryAttempts \in RetryCounts
    /\ closedTruthy = TRUE
    /\ payload = <<>>
    /\ callbacks = AllCallbacks
    /\ throwers = {}
    /\ StreamIdle
    /\ PostIdle
    /\ ExtractIdle
    /\ PeerIdle
    /\ PrepIdle

NextPost ==
    \/ ClientCall
    \/ QueryCall
    \/ Tick
    \/ TimerFire
    \/ FetchReject
    \/ FetchResolve
    \/ TextResolve
    \/ TextReject
    \/ JsonResolve
    \/ JsonReject
    \/ DelayElapsed
    \/ QueryResume

SpecPost == InitPost /\ [][NextPost]_vars

\* ------------------------------------------------------- the streaming system

InitStream ==
    /\ retryAttempts = 3
    /\ PostIdle
    /\ closedTruthy \in BOOLEAN
    /\ callbacks \in CallbackSets
    /\ throwers \in ThrowerSets
    /\ throwers # {} => callbacks = AllCallbacks
    /\ IF throwers = {} /\ callbacks = AllCallbacks
       THEN payload \in Payloads
       ELSE payload \in ShortPayloads
    /\ StreamIdle
    /\ ExtractIdle
    /\ PeerIdle
    /\ PrepIdle

NextStream ==
    \/ QueryStreamCall
    \/ QueryStreamSetupFails
    \/ StreamFetchReject
    \/ StreamFetchResolveOk
    \/ StreamFetchResolveBad
    \/ StreamFetchResolveNullBody
    \/ StreamTextSettles
    \/ ReadChunk
    \/ ProcessLine
    \/ ReadDone
    \/ ReadFail
    \/ Cancel
    \/ CancelAfterSetupFailure
    \/ AbortReject

SpecStream == InitStream /\ [][NextStream]_vars

\* ------------------------------------------------------ the extraction system

\* the longest text of the texts explored exhaustively
MaxTextLen == 4

ExtractTokens == {"{", "}", FenceJson, Fence, "1"}

\* every text of at most n tokens
RECURSIVE TextsUpTo(_)
TextsUpTo(n) ==
    IF n = 0 THEN {<<>>}
    ELSE TextsUpTo(n - 1) \cup {Append(t, tok) : t \in TextsUpTo(n - 1), tok \in ExtractTokens}

\* an action entry {"action": name, "parameters": {}}
EntryText(name) ==
    <<"{", StrAction, ":", name, ",", StrParameters, ":", "{", "}", "}">>

\* {"browser_actions": [ ...entries ]}
ActionsText(entries) == <<"{", StrBrowserActions, ":", "[">> \o entries \o <<"]", "}">>

\* replies with a structure: lists of actions (two entries, an entry without
\* parameters, an entry that is null or a number, no list), other JSON values,
\* braces before and after a fenced block, blanks inside a fenced block
ReplyTexts ==
    { ActionsText(EntryText(StrOther) \o <<",">> \o EntryText(StrAction)),
      ActionsText(<<"{", StrAction, ":", StrOther, "}">>),
      ActionsText(<<"null">>),
      ActionsText(<<"1">>),
      ActionsText(<<>>),
      <<"{", StrBrowserActions, ":", "1", "}">>,
      <<"{", StrOther, ":", "1", "}">>,
      <<FenceJson, "[", "1", "]", Fence>>,
      <<FenceJson, "null", Fence>>,
      <<FenceJson, StrOther, Fence>>,
      <<FenceJson, " ", "{", "}", " ", Fence>>,
      <<FenceJson, " ", Fence>>,
      <<"w", "{", "}", "w", FenceJson, "{", StrOther, ":", "1", "}", Fence>>,
      <<"{", "}", "w", "{", "}">>,
      <<"w", "{", " ", "}", " ">> } \cup ChatTexts

Texts == TextsUpTo(MaxTextLen) \cup ReplyTexts

InitExtract ==
    /\ retryAttempts = 3
    /\ closedTruthy = TRUE
    /\ payload = <<>>
    /\ callbacks = AllCallbacks
    /\ throwers = {}
    /\ PostIdle
    /\ StreamIdle
    /\ xText \in Texts
    /\ xOut = NoExtraction
    /\ PeerIdle
    /\ PrepIdle

\* lines 429-441: extractStructuredData is applied to the text
ExtractStructured ==
    /\ xOut.stage = 0
    /\ xOut' = [xOut EXCEPT !.stage = 1, !.structured = extractStructuredData(xText)]
    /\ UNCHANGED <<xText, postVars, queryVars, streamVars, qsVars, prepVars, peer>>

\* lines 448-460: extractToolCalls is applied to what extractStructuredData gave
ExtractCommands ==
    /\ xOut.stage = 1
    /\ xOut.structured.some
    /\ xOut' = [xOut EXCEPT !.stage = 2, !.commands = extractToolCalls(xOut.structured.v)]
    /\ UNCHANGED <<xText, postVars, queryVars, streamVars, qsVars, prepVars, peer>>

NextExtract ==
    \/ ExtractStructured
    \/ ExtractCommands

SpecExtract == InitExtract /\ [][NextExtract]_vars

\* ----------------------------------------------------- AIService.preprocessQuery

\* A query is a sequence of pieces of text: words made of word characters, the
\* hyphen, the dot, a blank, and the two schemes.  No word ends in "go", starts
\* with "to" or holds a part of "navigate", so a phrase is in the text exactly
\* when its pieces are there one after the other.  One word, "httpd", begins
\* with the letters "http" and is no address.
WordTokens == {"example", "com", "navigate", "Navigate", "go", "Go", "to", "httpd"}
SchemeHttps == "https://"
SchemeHttp == "http://"
QueryTokens == WordTokens \cup {"-", ".", " ", SchemeHttps, SchemeHttp}

\* the longest query of the queries explored exhaustively
MaxQueryLen == 3

\* every query of at most n pieces
RECURSIVE QueriesUpTo(_)
QueriesUpTo(n) ==
    IF n = 0 THEN {<<>>}
    ELSE QueriesUpTo(n - 1)
             \cup {Append(t, tok) : t \in QueriesUpTo(n - 1), tok \in QueryTokens}

\* longer queries: the domain of the test-suite with blanks around it, an
\* address with a verb and blanks around it, a request with a verb, an address with a verb behind it, domains with a
\* hyphen, with three labels and with a name that holds "navigate"
LongQueries ==
    { <<" ", "example", ".", "com", " ">>,
      <<" ", SchemeHttps, "Navigate", " ">>,
      <<"go", " ", "to", " ", "example", ".", "com">>,
      <<"Go", " ", "to", " ", SchemeHttps, "example", ".", "com">>,
      <<SchemeHttps, "example", ".", "com", " ", "go", " ", "to">>,
      <<SchemeHttps, "example", ".", "com", " ", "Navigate">>,
      <<"example", "-", "go", ".", "to", ".", "com">>,
      <<" ", "Navigate", "-", "example", ".", "com">>,
      <<"example", ".", "navigate", ".", "com">> }

Queries == QueriesUpTo(MaxQueryLen) \cup LongQueries

\* String.prototype.toLowerCase
ToLowerCase(t) ==
    [i \in 1..Len(t) |-> CASE t[i] = "Navigate" -> "navigate"
                           [] t[i] = "Go" -> "go"
                           [] OTHER -> t[i]]

\* String.prototype.includes
Includes(t, sub) ==
    \E i \in 0..(Len(t) - Len(sub)) : SubSeq(t, i + 1, i + Len(sub)) = sub

\* line 473: /^[\w-]+(\.[\w-]+)+$/.test(t): labels of word characters and
\* hyphens, two of them at least, with one dot between two labels
BareDomainTest(t) ==
    /\ t # <<>>
    /\ \A i \in 1..Len(t) : t[i] \in WordTokens \cup {"-", "."}
    /\ t[1] # "." /\ t[Len(t)] # "."
    /\ \A i \in 1..(Len(t) - 1) : ~(t[i] = "." /\ t[i + 1] = ".")
    /\ \E i \in 1..Len(t) : t[i] = "."

\* a test without the anchors ^ and $: the text holds a bare domain somewhere
preprocessSchemeUnanchored(t) ==
    IF \E i \in 1..(Len(t) - 2) :
          /\ t[i] \in WordTokens \cup {"-"}
          /\ t[i + 1] = "."
          /\ t[i + 2] \in WordTokens \cup {"-"}
    THEN <<SchemeHttps>> \o t
    ELSE t

\* lines 473-475: the scheme is put in front of a bare domain
preprocessScheme(t) == IF BareDomainTest(t) THEN <<SchemeHttps>> \o t ELSE t

NavigateTo == <<"Navigate", " ", "to", " ">>

\* line 478: processedQuery.startsWith('http'): the text begins with these four
\* letters, whatever follows them
StartsWithHttp(t) == t # <<>> /\ Head(t) \in {SchemeHttps, SchemeHttp, "httpd"}

\* a context step that puts the instruction in front of every such text
preprocessContextAlways(t) ==
    IF StartsWithHttp(t) THEN NavigateTo \o t ELSE t

\* lines 478-484: the instruction is put in front of an address that comes
\* with no verb
preprocessContext(t) ==
    IF /\ StartsWithHttp(t)
       /\ ~Includes(ToLowerCase(t), <<"go", " ", "to">>)
       /\ ~Includes(ToLowerCase(t), <<"navigate">>)
    THEN NavigateTo \o t
    ELSE t

\* lines 467-487: preprocessQuery
preprocessQuery(q) == preprocessContext(preprocessScheme(Trim(q)))

InitPreprocess ==
    /\ retryAttempts = 3
    /\ closedTruthy = TRUE
    /\ payload = <<>>
    /\ callbacks = AllCallbacks
    /\ throwers = {}
    /\ PostIdle
    /\ StreamIdle
    /\ ExtractIdle
    /\ PeerIdle
    /\ query \in Queries
    /\ processedQuery = None

\* lines 467-487: preprocessQuery is applied to the query
Preprocess ==
    /\ ~processedQuery.some
    /\ processedQuery' = Some(preprocessQuery(query))
    /\ UNCHANGED <<query, postVars, queryVars, streamVars, qsVars, extractVars, peer>>

NextPreprocess == Preprocess

SpecPreprocess == InitPreprocess /\ [][NextPreprocess]_vars

\* ------------------------------------------- two queries at the same time

\* a line buffer kept in one place for all the sessions
SessionBufferShared(own, other) == other

\* line 190: let buffer, declared inside the task of each call of stream: the
\* buffer a session appends to is its own, whatever another session holds
SessionBuffer(own, other) == own

PeerFrame == UNCHANGED <<postVars, queryVars, streamVars, qsVars, extractVars, prepVars>>

\* lines 167-176: the second query is started and issues its fetch
PeerCall ==
    /\ peer.pc = "idle"
    /\ peer' = [peer EXCEPT !.pc = "fetch"]
    /\ PeerFrame

\* lines 169-192: its fetch resolves with a success status and a body
PeerFetchResolveOk ==
    /\ peer.pc = "fetch" /\ ~peer.errored
    /\ peer' = [peer EXCEPT !.pc = IF closedTruthy THEN "end" ELSE "read"]
    /\ PeerFrame

\* lines 213-218: the buffer after a chunk of n bytes that decodes to d
PeerAfterChunk(n, d, buf) ==
    peer' = [peer EXCEPT !.offset = peer.offset + n,
                         !.decPending = d.pending,
                         !.buffer = buf \o d.text,
                         !.pc = IF IndexOfNewline(buf \o d.text) # 0
                                THEN "lines" ELSE "read"]

\* lines 193 and 213-218: a read of the second query hands over the next bytes
PeerReadChunk ==
    /\ peer.pc = "read" /\ ~peer.errored
    /\ \E n \in 0..Min(MaxChunk, Len(peer.payload) - peer.offset) :
          PeerAfterChunk(n,
                         Decode(peer.decPending,
                                SubSeq(peer.payload, peer.offset + 1, peer.offset + n),
                                <<>>),
                         SessionBuffer(peer.buffer, buffer))
    /\ PeerFrame

\* what onChunk does with the record of a line, if the line has one
PeerOnChunk(rec) ==
    IF rec.some
    THEN onChunkClosure(rec.v, peer.full, AllCallbacks)
    ELSE [threw |-> FALSE, full |-> peer.full, evs |-> <<>>]

\* lines 219-229: the line is taken off the buffer and its record delivered
PeerAfterLine(rec, rest, r) ==
    peer' = [peer EXCEPT !.buffer = rest,
                         !.delivered = peer.delivered \o (IF rec.some THEN <<rec.v>> ELSE <<>>),
                         !.full = r.full,
                         !.events = peer.events \o r.evs,
                         !.pc = IF IndexOfNewline(rest) # 0 THEN "lines" ELSE "read"]

\* lines 218-230: one turn of the line loop of the second query
PeerProcessLine ==
    /\ peer.pc = "lines"
    /\ PeerAfterLine(LineRecord(FirstLine(peer.buffer, IndexOfNewline(peer.buffer))),
                     RestOfBuffer(peer.buffer, IndexOfNewline(peer.buffer)),
                     PeerOnChunk(LineRecord(FirstLine(peer.buffer,
                                                      IndexOfNewline(peer.buffer)))))
    /\ PeerFrame

\* lines 205-211 and 241-243: onDone is invoked (twice if it throws at the end)
PeerAfterDone(rec, r, d, times) ==
    peer' = [peer EXCEPT !.delivered = peer.delivered \o (IF rec.some THEN <<rec.v>> ELSE <<>>),
                         !.full = r.full,
                         !.events = peer.events \o r.evs \o d.evs,
                         !.doneCount = peer.doneCount + (IF d.threw THEN times ELSE 1),
                         !.pc = IF d.threw THEN "unhandled" ELSE "end"]

\* lines 195-211: the byte stream of the second query has ended
PeerReadDone ==
    /\ peer.pc = "read" /\ ~peer.errored
    /\ peer.offset = Len(peer.payload)
    /\ PeerAfterDone(ResidueRecord(peer.buffer),
                     PeerOnChunk(ResidueRecord(peer.buffer)),
                     onDoneClosure(PeerOnChunk(ResidueRecord(peer.buffer)).full,
                                   AllCallbacks, {}),
                     2)
    /\ PeerFrame

\* lines 232-244: the catch block of the task of the second query
PeerCatch ==
    /\ PeerAfterDone(None, [threw |-> FALSE, full |-> peer.full, evs |-> <<>>],
                     onDoneClosure(peer.full, AllCallbacks, {}), 1)
    /\ PeerFrame

\* lines 169 and 193: the fetch or a read of the second query rejects
PeerFail ==
    /\ peer.pc \in {"fetch", "read"} /\ ~peer.errored
    /\ PeerCatch

\* lines 248-251: the cancel function of the second query is called
PeerCancel ==
    /\ ~peer.cancelled
    /\ peer.pc \in {"fetch", "read", "end"}
    /\ peer' = [peer EXCEPT !.cancelled = TRUE,
                            !.errored = peer.pc \in {"fetch", "read"}]
    /\ PeerFrame

\* lines 169 and 193: the pending await of the second query rejects with the
\* AbortError
PeerAbortReject ==
    /\ peer.pc \in {"fetch", "read"} /\ peer.errored
    /\ PeerCatch

\* the bodies of the first query and the body of the second
PairBodies ==
    { RecordLine(<<"w">>, FALSE) \o <<LF>> \o RecordLine(<<"{">>, FALSE),
      RecordLine(<<"}">>, TRUE) \o <<LF>> }

PeerBody == RecordLine(<<"{">>, FALSE) \o <<LF>> \o RecordLine(<<"}">>, TRUE) \o <<LF>>

InitPair ==
    /\ retryAttempts = 1
    /\ PostIdle
    /\ closedTruthy \in BOOLEAN
    /\ payload \in PairBodies
    /\ callbacks = AllCallbacks
    /\ throwers = {}
    /\ StreamIdle
    /\ ExtractIdle
    /\ peer = PeerLocals(PeerBody)
    /\ PrepIdle

NextPair ==
    \/ QueryStreamCall
    \/ StreamFetchResolveOk
    \/ ReadChunk
    \/ ProcessLine
    \/ ReadDone
    \/ ReadFail
    \/ Cancel
    \/ AbortReject
    \/ PeerCall
    \/ PeerFetchResolveOk
    \/ PeerReadChunk
    \/ PeerProcessLine
    \/ PeerReadDone
    \/ PeerFail
    \/ PeerCancel
    \/ PeerAbortReject
    \/ ClientCall
    \/ FetchReject
    \/ FetchResolve
    \/ TextResolve
    \/ JsonResolve

SpecPair == InitPair /\ [][NextPair]_vars

\* ------------------------------------- the streaming system and its scheduling

InitStreamFair ==
    /\ retryAttempts = 3
    /\ PostIdle
    /\ closedTruthy \in BOOLEAN
    /\ payload \in PairBodies
    /\ callbacks = AllCallbacks
    /\ throwers = {}
    /\ StreamIdle
    /\ ExtractIdle
    /\ PeerIdle
    /\ PrepIdle

\* What the event loop guarantees: the synchronous line loop runs to its end,
\* and after controller.abort() the promise the task waits for rejects.  When
\* the service answers, and whether the caller cancels, is up to them: stream
\* arms no timer (lines 162-176 hold no setTimeout, unlike line 97 of post).
SpecStreamFair ==
    /\ InitStreamFair
    /\ [][NextStream]_vars
    /\ WF_vars(ProcessLine)
    /\ WF_vars(AbortReject)

\* =================================================================== claims

AttemptBudget == IF retryAttempts > 0 THEN retryAttempts ELSE 0

\* C1: a single-shot call whose every attempt fails performs exactly N fetches for
\* the configured attempt count N, never more and never fewer, and then fails,
\* whatever the kinds of the failures: it never issues more than N fetches, it
\* fails only after the N-th, and it waits for a retry only when fewer than N
\* fetches have been issued.
C1_ExactlyNAttempts ==
    /\ fetchCount <= AttemptBudget
    /\ (ppc = "threw" /\ retryAttempts >= 0) => fetchCount = retryAttempts
    /\ ppc = "delay" => fetchCount < retryAttempts
    /\ (lastFault.kind # "none" /\ lastFault.attempt = retryAttempts) => ppc = "threw"

\* three attempts that failed, the last one on a client error
C1_Witness ==
    /\ ppc = "threw" /\ retryAttempts = 3 /\ fetchCount = 3
    /\ lastFault.kind = "status" /\ lastFault.error.statusCode = 400

\* C4: query never fails towards its caller: once it is done it has returned a
\* result, and when the transport failed the result carries the generic backend
\* message in text and the message of the error of the transport in error.
C4_QueryNeverThrows ==
    qpc = "done" =>
        /\ queryResult.kind = "return"
        /\ ppc = "threw" =>
              /\ queryResult.text = BackendErrorText
              /\ queryResult.hasError
              /\ queryResult.error = postOutcome.error.message

\* query is done after the transport failed with a network error
C4_Witness ==
    /\ qpc = "done" /\ ppc = "threw"
    /\ postOutcome.error.cls = "OllamaNetworkError"
    /\ queryResult.kind = "return"

\* C6: when every attempt fails the error surfaced is the one of the last
\* attempt, and its kind tells the fault classes apart: a connection failure or
\* a timeout surfaces as an OllamaNetworkError, a non-success status as an
\* OllamaAPIError that is no OllamaNetworkError and carries the status, an error
\* payload as an OllamaAPIError that is no OllamaNetworkError.
C6_LastErrorByKind ==
    (ppc = "threw" /\ lastFault.kind # "none") =>
        /\ lastFault.kind \in {"network", "timeout"} =>
              /\ InstanceOfOllamaNetworkError(postOutcome.error)
              /\ postOutcome.error.message = "Network error: " \o lastFault.error.message
        /\ lastFault.kind = "status" =>
              /\ InstanceOfOllamaAPIError(postOutcome.error)
              /\ ~InstanceOfOllamaNetworkError(postOutcome.error)
              /\ postOutcome.error.hasStatus
              /\ postOutcome.error.statusCode = pendingResp.status
              /\ postOutcome.error.message = "API error: " \o lastFault.detail
        /\ lastFault.kind = "payload" =>
              /\ InstanceOfOllamaAPIError(postOutcome.error)
              /\ ~InstanceOfOllamaNetworkError(postOutcome.error)
              /\ postOutcome.error = lastFault.error

\* the call failed on its second or later attempt with a non-success status
C6_Witness ==
    /\ ppc = "threw" /\ attempt >= 2
    /\ lastFault.kind = "status"
    /\ postOutcome.error.statusCode = 500

\* C7: an attempt that receives a success status whose body is an error payload
\* {error: string} is a failed attempt: such a body is never returned, the call
\* fails on it only when it is the last attempt (it is retried before), and then
\* it fails with a service fault whose message contains the error string.
C7_ErrorPayloadIsFailure ==
    /\ postOutcome.kind = "return" => postOutcome.value.shape # "error"
    /\ (lastFault.kind = "payload" /\ lastFault.attempt = attempt) =>
          /\ ppc \in {"delay", "threw"}
          /\ ppc = "delay" <=> attempt < retryAttempts
    /\ (lastFault.kind = "payload" /\ ppc = "threw") =>
          /\ attempt = retryAttempts
          /\ postOutcome.error.cls = "OllamaAPIError"
          /\ lastFault.detail \in ErrorStrings
          /\ postOutcome.error.message = "API returned error: " \o lastFault.detail

\* the third attempt got an error payload with a success status and the call failed
C7_Witness ==
    /\ ppc = "threw" /\ lastFault.kind = "payload" /\ fetchCount = 3
    /\ pendingResp.ok

\* C8: every attempt is bounded by the per-attempt deadline: no attempt is still
\* pending (status or body outstanding) after timeoutMs.
C8_AttemptWithinDeadline == ppc \in PostPending => elapsed <= TimeoutTicks

\* ------------------------------------------------------------ streaming claims

IsPrefix(s, t) == Len(s) <= Len(t) /\ s = SubSeq(t, 1, Len(s))

\* the records of a line, as a sequence of none or one
RecordSeq(rec) == IF rec.some THEN <<rec.v>> ELSE <<>>

\* the records of a decoded text that is in the buffer in one piece: one per
\* well-formed line, then the one of the text after the last newline
RECURSIVE BufferRecords(_)
BufferRecords(buf) ==
    IF IndexOfNewline(buf) = 0 THEN RecordSeq(ResidueRecord(buf))
    ELSE RecordSeq(LineRecord(FirstLine(buf, IndexOfNewline(buf))))
             \o BufferRecords(RestOfBuffer(buf, IndexOfNewline(buf)))

\* the records of a body that arrives as a single chunk
OneChunkRecords(bytes) == BufferRecords(Decode(<<>>, bytes, <<>>).text)

\* a streaming session has ended: the task has returned or rejected
SessionEnded == spc \in {"end", "unhandled"}

\* C2: in every streaming session onDone is invoked exactly once, however the
\* session ends: a session that has ended has had one invocation, not none and
\* not two.
C2_DoneExactlyOnce == SessionEnded => doneCount = 1

\* C3: reassembly is canonical: however the body is split into chunks, the
\* records delivered are those of the body handed over as one chunk: what has
\* been delivered is always a prefix of them, and all of them once the end of
\* the byte stream has been processed.
C3_ReassemblyCanonical ==
    /\ IsPrefix(delivered, OneChunkRecords(payload))
    /\ sawDone => delivered = OneChunkRecords(payload)

\* a record has been delivered and a chunk has ended inside the next line
C3_Witness ==
    /\ ~closedTruthy /\ spc = "read"
    /\ Len(delivered) >= 1
    /\ buffer # <<>> /\ offset < Len(payload)

\* C5: a streaming query whose session ends on a fault (non-success status, null
\* body, failure in the middle of the body) reports it: onError has fired or the
\* result given to onComplete has its error set.
C5_FaultReported ==
    (SessionEnded /\ streamFault \in {"status", "nullbody", "midstream"}) =>
        \E i \in 1..Len(events) :
            \/ events[i].cb = "onError"
            \/ events[i].cb = "onComplete" /\ events[i].arg.hasError

\* C9: after cancel has been called no record is delivered for data that had not
\* been processed at the call, and onDone has been invoked at most once.
C9_NoRecordAfterCancel ==
    cancelledAt.called =>
        /\ Len(delivered) = cancelledAt.delivered
        /\ doneCount <= 1

\* a line of the body that is neither blank nor JSON
RECURSIVE HasMalformedLine(_)
HasMalformedLine(buf) ==
    IF IndexOfNewline(buf) = 0 THEN FALSE
    ELSE \/ /\ FirstLine(buf, IndexOfNewline(buf)) # <<>>
            /\ ~LineRecord(FirstLine(buf, IndexOfNewline(buf))).some
         \/ HasMalformedLine(RestOfBuffer(buf, IndexOfNewline(buf)))

\* C10: a malformed line in an otherwise valid stream is skipped without ending
\* the session: when the session of a body with a malformed line has ended with
\* no fault and no cancel, every well-formed line has been delivered, in order,
\* and onDone has been invoked.
C10_MalformedLineSkipped ==
    (/\ SessionEnded
     /\ streamFault = "none"
     /\ ~cancelledAt.called
     /\ HasMalformedLine(Decode(<<>>, payload, <<>>).text)) =>
        /\ delivered = OneChunkRecords(payload)
        /\ doneCount >= 1

\* --------------------------------------------------- streaming query claims

\* the fragments of the delivered records that carry a text
RECURSIVE Fragments(_)
Fragments(recs) ==
    IF recs = <<>> THEN <<>>
    ELSE IF Head(recs).k = "rec" /\ Head(recs).content # <<>>
         THEN <<Head(recs).content>> \o Fragments(Tail(recs))
         ELSE Fragments(Tail(recs))

\* the text of every delivered record, empty for one that carries none
RECURSIVE RecordTexts(_)
RecordTexts(recs) ==
    IF recs = <<>> THEN <<>>
    ELSE <<IF Head(recs).k = "rec" THEN Head(recs).content ELSE <<>>>>
             \o RecordTexts(Tail(recs))

\* the concatenation of a sequence of texts
RECURSIVE Concat(_)
Concat(texts) == IF texts = <<>> THEN <<>> ELSE Head(texts) \o Concat(Tail(texts))

\* the arguments of the invocations of one callback, in order
RECURSIVE ArgsOf(_, _)
ArgsOf(evs, cb) ==
    IF evs = <<>> THEN <<>>
    ELSE IF Head(evs).cb = cb THEN <<Head(evs).arg>> \o ArgsOf(Tail(evs), cb)
         ELSE ArgsOf(Tail(evs), cb)

\* C11: when the session of a streaming query has ended, onComplete has fired
\* exactly once, after every onTextUpdate, and on normal completion its result
\* has the concatenation of the fragments of the delivered records as text and
\* no error.
C11_CompleteOnceAfterText ==
    SessionEnded =>
        /\ Len(ArgsOf(events, "onComplete")) = 1
        /\ events[Len(events)].cb = "onComplete"
        /\ (sawDone /\ streamFault = "none") =>
              /\ events[Len(events)].arg.text = Concat(Fragments(delivered))
              /\ ~events[Len(events)].arg.hasError

\* C12 as amended: onTextUpdate fires once for every delivered record that
\* carries a non-empty text, with the accumulated text: the k-th invocation
\* carries the concatenation of the first k non-empty fragments.
C12_TextUpdatePerFragment ==
    "onTextUpdate" \in callbacks =>
        LET updates == ArgsOf(events, "onTextUpdate")
            frags == Fragments(delivered)
        IN /\ Len(updates) = Len(frags)
           /\ \A k \in 1..Len(updates) : updates[k] = Concat(SubSeq(frags, 1, k))
           /\ fullResponse = Concat(frags)

\* C12 as stated: onTextUpdate fires once for every delivered record, the k-th
\* invocation carrying the concatenation of the texts of the first k records.
C12_TextUpdatePerRecord ==
    LET updates == ArgsOf(events, "onTextUpdate")
        texts == RecordTexts(delivered)
    IN /\ Len(updates) = Len(delivered)
       /\ \A k \in 1..Len(updates) : updates[k] = Concat(SubSeq(texts, 1, k))

\* two records with a text were delivered and the second update is accumulated
C12_Witness ==
    /\ Len(ArgsOf(events, "onTextUpdate")) = 2
    /\ Len(Fragments(delivered)) = 2
    /\ ArgsOf(events, "onTextUpdate")[2] = <<"w", "{">>

\* the commands of a text: the tool calls of its structured output, if it has any
CommandsOf(t) ==
    IF TruthyOpt(extractStructuredData(t))
    THEN extractToolCalls(extractStructuredData(t).v)
    ELSE [threw |-> FALSE, calls |-> None]

\* C13: whenever the accumulated text of a delivered record yields commands and
\* the caller supplied onToolCallsUpdate, onToolCallsUpdate fires with them,
\* whatever other callbacks were supplied.
C13_ToolCallsUpdateFires ==
    "onToolCallsUpdate" \in callbacks =>
        \A i \in 1..Len(events) :
            (/\ events[i].cb = "onTextUpdate"
             /\ ~CommandsOf(events[i].arg).threw
             /\ CommandsOf(events[i].arg).calls.some) =>
                \E j \in (i + 1)..Len(events) :
                    /\ events[j].cb = "onToolCallsUpdate"
                    /\ events[j].arg = CommandsOf(events[i].arg).calls.v

\* C14: when the setup of a streaming query fails, onError fires once with the
\* error, then onComplete once with the generic error result, nothing is sent,
\* and calling the function returned triggers no callback.
C14_SetupFailureReported ==
    spc \in {"setupFailed", "setupRejected"} =>
        /\ events = <<Ev("onError", MkError("TypeError", "query.trim is not a function")),
                      Ev("onComplete",
                         QueryReturned(BackendErrorText, None, None, TRUE,
                                       "query.trim is not a function"))>>
        /\ streamFetches = 0
        /\ doneCount = 0
        /\ delivered = <<>>

\* the setup failed and the function returned has been called
C14_Witness == spc = "setupFailed" /\ cancelledAt.called /\ Len(events) = 2

\* C15: a terminal state is never left: once onComplete has fired, no callback
\* of the query fires again.
C15_NothingAfterComplete ==
    \A i \in 1..Len(events) : events[i].cb = "onComplete" => i = Len(events)

\* what a session has delivered and handed to its callbacks is built from the
\* records of its own body only
OwnRecordsOnly(body, recs, full, evs) ==
    /\ IsPrefix(recs, OneChunkRecords(body))
    /\ full = Concat(Fragments(recs))
    /\ Len(ArgsOf(evs, "onTextUpdate")) = Len(Fragments(recs))
    /\ \A k \in 1..Len(Fragments(recs)) :
          ArgsOf(evs, "onTextUpdate")[k] = Concat(SubSeq(Fragments(recs), 1, k))
    /\ \A k \in 1..Len(ArgsOf(evs, "onComplete")) :
          ArgsOf(evs, "onComplete")[k].text = full

\* a step of one query leaves the state of the two others as it was
OneQueryPerStep ==
    /\ peer' # peer => UNCHANGED <<postVars, queryVars, streamVars, qsVars>>
    /\ <<streamVars, qsVars>>' # <<streamVars, qsVars>> =>
          UNCHANGED <<postVars, queryVars, peer>>
    /\ <<postVars, queryVars>>' # <<postVars, queryVars>> =>
          UNCHANGED <<streamVars, qsVars, peer>>

\* C16: concurrent queries never contend: with two streaming sessions and a
\* single-shot call interleaved in any order, the records a session delivers
\* and the text its callbacks receive are built from its own body only, the
\* single-shot call stays within its own attempts, and a step of one query
\* (a cancellation or a failure included) changes nothing of the others.
C16_NoContention ==
    /\ [](/\ OwnRecordsOnly(payload, delivered, fullResponse, events)
          /\ OwnRecordsOnly(peer.payload, peer.delivered, peer.full, peer.events)
          /\ fetchCount <= retryAttempts)
    /\ [][OneQueryPerStep]_vars

\* the first session was cancelled after one record, the second then completed
\* with both of its records, and the single-shot call has returned
C16_Witness ==
    /\ cancelledAt.called /\ spc = "end" /\ Len(delivered) = 1
    /\ peer.pc = "end" /\ ~peer.cancelled /\ peer.doneCount = 1
    /\ peer.delivered = OneChunkRecords(PeerBody) /\ Len(peer.delivered) = 2
    /\ ppc = "returned"

\* ----------------------------------------------------------- extraction claims

\* C17: when the transport succeeds with a chat response, query returns the raw
\* text unchanged and no error; structuredOutput is what extraction gave, and
\* toolCalls is present only with a structuredOutput that holds a list of actions.
C17_QuerySuccessResult ==
    (/\ qpc = "done"
     /\ postOutcome.kind = "return"
     /\ postOutcome.value.shape = "chat") =>
        /\ queryResult.kind = "return"
        /\ queryResult.text = postOutcome.value.content
        /\ ~queryResult.hasError
        /\ queryResult.structuredOutput = extractStructuredData(postOutcome.value.content)
        /\ queryResult.toolCalls.some =>
              /\ queryResult.structuredOutput.some
              /\ Prop(queryResult.structuredOutput.v, StrBrowserActions).some

\* the text has a fenced block tagged as structured data
HasFencedBlock(t) == \E i \in 1..Len(t) : FenceMatchAt(t, i)

\* the content of the first fenced block of a text that has one
FencedContent(t) ==
    LET i == CHOOSE i \in 1..Len(t) :
                 FenceMatchAt(t, i) /\ \A k \in 1..(i - 1) : ~FenceMatchAt(t, k)
        j == CHOOSE j \in (i + 1)..Len(t) :
                 StartsFence(t[j]) /\ \A k \in (i + 1)..(j - 1) : ~StartsFence(t[k])
    IN SubSeq(t, i + 1, j - 1)

\* C18: whenever the text has a fenced block tagged as structured data, the
\* content of the block is what is parsed, wherever braces occur around it.
C18_FencedBlockFirst ==
    (xOut.stage >= 1 /\ HasFencedBlock(xText)) =>
        xOut.structured = JsonParse(Trim(FencedContent(xText)))

\* C19: extractStructuredData gives a keyed mapping or nothing, so that
\* extractToolCalls applied to what it gave never raises.
C19_MappingOrAbsent ==
    /\ (xOut.stage >= 1 /\ xOut.structured.some) => xOut.structured.v.k = "obj"
    /\ ~xOut.commands.threw

\* the mapping holds a list under browser_actions
HoldsActionList(m) ==
    IF HasKey(m, StrBrowserActions) THEN GetKey(m, StrBrowserActions).k = "arr" ELSE FALSE

\* an entry with an action name and a parameter mapping
IsActionEntry(e) ==
    /\ e.k = "obj"
    /\ IF HasKey(e, StrAction) THEN GetKey(e, StrAction).k = "str" ELSE FALSE
    /\ IF HasKey(e, StrParameters) THEN GetKey(e, StrParameters).k = "obj" ELSE FALSE

\* C20: extractToolCalls applied to a mapping gives a list of commands if and
\* only if the mapping holds a list under browser_actions; the list has one
\* command per entry, in the order of the entries, and the command of an entry
\* with an action name and a parameter mapping has those values.
C20_CommandsFromActionList ==
    (xOut.stage = 2 /\ xOut.structured.v.k = "obj") =>
        /\ xOut.commands.calls.some <=> HoldsActionList(xOut.structured.v)
        /\ xOut.commands.calls.some =>
              LET items == GetKey(xOut.structured.v, StrBrowserActions).items
                  calls == xOut.commands.calls.v
              IN /\ Len(calls) = Len(items)
                 /\ \A i \in 1..Len(items) :
                       IsActionEntry(items[i]) =>
                           calls[i] = [name |-> Some(GetKey(items[i], StrAction)),
                                       parameters |-> Some(GetKey(items[i], StrParameters))]

\* ------------------------------------------------------ streaming: no retry

\* the session has started its task
TaskStarted == spc \notin {"idle", "setupFailed", "setupRejected"}

\* C21: a streaming session never retries: its task issues exactly one HTTP
\* exchange, and a failure of that exchange (before the response, on a
\* non-success status, on a missing body, in the middle of the body) ends the
\* session with that single exchange.
C21_OneExchangeNoRetry ==
    /\ streamFetches = (IF TaskStarted THEN 1 ELSE 0)
    /\ streamFault # "none" => SessionEnded /\ streamFetches = 1

\* the connection broke in the middle of the body after a record had been
\* delivered, and the session ended with its only exchange
C21_Witness ==
    /\ streamFault = "midstream" /\ spc = "end"
    /\ Len(delivered) >= 1 /\ streamFetches = 1 /\ retryAttempts = 3

\* C22: the initial connection of a streaming session is timeout-bound: a
\* session that waits for the response to its request does not wait forever,
\* the exchange is aborted and the session leaves the Requesting state.
C22_RequestingEnds == (spc = "fetch") ~> (spc # "fetch")

\* ------------------------------------------------ streaming: split characters

\* the text holds no replacement character and no byte of a character
WholeCharacters(text) ==
    \A i \in 1..Len(text) : text[i] \notin {"U+FFFD", "C3", "A9"}

\* C23: a two-byte character whose bytes are split across two chunks is decoded
\* to the character once both chunks are processed: after the first chunk the
\* line buffer holds no replacement character and no part of the character (the
\* first byte is kept by the decoder), the second chunk appends the character to
\* the buffer, and the delivered records are those of the body in one chunk.
C23_SplitCharacterDecoded ==
    /\ [](/\ WholeCharacters(buffer)
          /\ decPending \in {<<>>, <<"C3">>}
          /\ decPending = <<"C3">> <=> (offset > 0 /\ payload[offset] = "C3")
          /\ \A i \in 1..Len(delivered) :
                delivered[i].k = "str" => delivered[i].chars = <<"e-acute">>
          /\ IsPrefix(delivered, OneChunkRecords(payload)))
    /\ [][(decPending = <<"C3">> /\ offset' > offset) =>
              IsPrefix(Append(buffer, "e-acute"), buffer')]_vars

\* the first chunk ended between the two bytes of the character: the buffer
\* holds the text before it, the decoder holds the first byte
C23_Witness ==
    /\ decPending = <<"C3">> /\ spc = "read"
    /\ buffer = <<Quote>> /\ Len(delivered) = 1

\* ---------------------------------------------------------------- preprocessing

\* the query has a navigation verb: "go to" or "navigate", in any letter case
HasNavigationVerb(t) ==
    \/ Includes(ToLowerCase(t), <<"go", " ", "to">>)
    \/ Includes(ToLowerCase(t), <<"navigate">>)

\* C24: a query that is a bare domain d once trimmed (labels of word characters
\* or hyphens separated by dots) is turned into "Navigate to https://" followed
\* by d.
C24_BareDomainNavigates ==
    (processedQuery.some /\ BareDomainTest(Trim(query))) =>
        processedQuery.v = NavigateTo \o <<SchemeHttps>> \o Trim(query)

\* C25 as amended: a query that has a navigation verb and is not a bare domain
\* once trimmed is left as it is apart from the trimming.
C25_VerbLeftUnchanged ==
    (processedQuery.some /\ HasNavigationVerb(query) /\ ~BareDomainTest(Trim(query))) =>
        processedQuery.v = Trim(query)

\* C25 as stated: every query that has a navigation verb is left as it is apart
\* from the trimming: no scheme and no instruction is put in front of it.
C25_EveryVerbLeftUnchanged ==
    (processedQuery.some /\ HasNavigationVerb(query)) => processedQuery.v = Trim(query)

\* an address with a verb behind it and blanks around it came back trimmed and
\* otherwise as it was
C25_Witness ==
    /\ query = <<" ", SchemeHttps, "Navigate", " ">>
    /\ processedQuery = Some(<<SchemeHttps, "Navigate">>)

\* ------------------------------------------- streaming: the final extraction

\* the places of the invocations of a callback among the events
PlacesOf(evs, cb) == {i \in 1..Len(evs) : evs[i].cb = cb}

\* the largest member of a set of places, 0 when it is empty
MaxOf(S) == IF S = {} THEN 0 ELSE CHOOSE i \in S : \A j \in S : j <= i

\* the smallest member of a non-empty set of places
MinOf(S) == CHOOSE i \in S : \A j \in S : i <= j

\* the extraction run at the last text-bearing record (the events from place t,
\* its onTextUpdate, up to place c, the onComplete) gave what the result of
\* onComplete holds
SameExtraction(evs, t, c, cbs) ==
    /\ evs[t].arg = evs[c].arg.text
    /\ (TruthyOpt(evs[c].arg.structuredOutput) /\ "onStructuredOutputUpdate" \in cbs) =>
          /\ t + 1 < c
          /\ evs[t + 1] = Ev("onStructuredOutputUpdate", evs[c].arg.structuredOutput.v)
    /\ (t + 1 < c /\ evs[t + 1].cb = "onStructuredOutputUpdate") =>
          evs[c].arg.structuredOutput = Some(evs[t + 1].arg)
    /\ (evs[c].arg.toolCalls.some /\ "onStructuredOutputUpdate" \in cbs) =>
          /\ t + 2 < c
          /\ evs[t + 2] = Ev("onToolCallsUpdate", evs[c].arg.toolCalls.v)
    /\ (t + 2 < c /\ evs[t + 2].cb = "onToolCallsUpdate") =>
          evs[c].arg.toolCalls = Some(evs[t + 2].arg)

\* C26: extraction is idempotent: in a streaming query the extraction pass at
\* completion, run on the accumulated text as the last text-bearing record left
\* it, gives the structured output and the commands that the pass at that
\* record gave; with no text-bearing record it gives none.
C26_FinalExtractionSame ==
    (TaskStarted /\ PlacesOf(events, "onComplete") # {}) =>
        IF PlacesOf(events, "onTextUpdate") = {}
        THEN /\ events[MinOf(PlacesOf(events, "onComplete"))].arg.text = <<>>
             /\ ~events[MinOf(PlacesOf(events, "onComplete"))].arg.structuredOutput.some
        ELSE SameExtraction(events, MaxOf(PlacesOf(events, "onTextUpdate")),
                            MinOf(PlacesOf(events, "onComplete")), callbacks)

\* a session ended after two text-bearing records, the second of which completed
\* a structure with commands: both passes reported it
C26_Witness ==
    /\ spc = "end" /\ sawDone
    /\ Len(ArgsOf(events, "onTextUpdate")) = 2
    /\ Len(ArgsOf(events, "onToolCallsUpdate")) = 1
    /\ Last(events).cb = "onComplete" /\ Last(events).arg.toolCalls.some

\* ------------------------------------------------- single-shot: the attempts

\* C27: a single-shot call stops at its first successful attempt: when it has
\* returned, every attempt before the last one had failed, it has issued as many
\* exchanges as attempts (one when it succeeded at once), what it returned is
\* the body of the success response, which is no error payload, and nothing is
\* issued or changed after the return.
C27_StopsAtFirstSuccess ==
    /\ [](ppc = "returned" =>
             /\ fetchCount = attempt /\ attempt = lastFault.attempt + 1
             /\ 1 <= attempt /\ attempt <= retryAttempts
             /\ pendingResp.ok
             /\ postOutcome.kind = "return" /\ postOutcome.value \in Bodies
             /\ postOutcome.value.shape # "error")
    /\ [][/\ (ppc # "returned" /\ ppc' = "returned") =>
                 ppc = "json" /\ UNCHANGED <<fetchCount, attempt>>
          /\ ppc = "returned" => UNCHANGED postVars]_vars

\* the first attempt failed, the second succeeded with a chat reply, and the
\* third attempt that was left was not made
C27_Witness ==
    /\ ppc = "returned" /\ retryAttempts = 3
    /\ fetchCount = 2 /\ lastFault.attempt = 1
    /\ postOutcome.value.shape = "chat"

\* an attempt of the call is in flight
InFlight == ppc \in PostPending

\* C28: the attempts of a single-shot call are sequential and separated by the
\* retry delay: an attempt starts when the call begins or when a retry delay has
\* fully elapsed after the failure of the attempt before it, never while an
\* attempt is in flight; the attempt in flight is the only one that has not
\* failed; and no delay is waited after the final failing attempt: a call that
\* failed on all its N attempts has waited N - 1 delays.
C28_SequentialAttempts ==
    /\ [](/\ fetchCount = attempt
          /\ InFlight => (lastFault.attempt = attempt - 1 /\ delaysWaited = attempt - 1)
          /\ ppc = "delay" =>
                /\ lastFault.attempt = attempt /\ delaysWaited = attempt - 1
                /\ attempt < retryAttempts
          /\ (ppc = "threw" /\ retryAttempts >= 1) =>
                /\ lastFault.attempt = retryAttempts /\ fetchCount = retryAttempts
                /\ delaysWaited = retryAttempts - 1)
    /\ [][fetchCount' # fetchCount =>
             /\ fetchCount' = fetchCount + 1
             /\ ~InFlight
             /\ \/ ppc = "idle"
                \/ /\ ppc = "delay" /\ delaysWaited' = delaysWaited + 1
                   /\ lastFault.attempt = attempt]_vars

\* a call configured for three attempts has failed on all three and has waited
\* two delays
C28_Witness ==
    /\ ppc = "threw" /\ retryAttempts = 3
    /\ fetchCount = 3 /\ delaysWaited = 2 /\ lastFault.attempt = 3

\* --------------------------------------------------- streaming: the residue

\* the decoded text of a body
Decoded(bytes) == Decode(<<>>, bytes, <<>>).text

\* the text after the last newline
RECURSIVE Residue(_)
Residue(text) ==
    IF IndexOfNewline(text) = 0 THEN text
    ELSE Residue(RestOfBuffer(text, IndexOfNewline(text)))

\* the records of the lines of a text that are ended by a newline
RECURSIVE TerminatedLineRecords(_)
TerminatedLineRecords(text) ==
    IF IndexOfNewline(text) = 0 THEN <<>>
    ELSE RecordSeq(LineRecord(FirstLine(text, IndexOfNewline(text))))
             \o TerminatedLineRecords(RestOfBuffer(text, IndexOfNewline(text)))

\* C29: when the byte stream ends with text after the last newline, the residue
\* gets one final parse: a session whose body has such a residue and that ended
\* without a fault has delivered the records of its lines and then, if the
\* residue is a well-formed record, that record, and none for a residue that is
\* malformed or blank; the terminal callback has fired, once, after them.
C29_ResidueParsedAtEnd ==
    (SessionEnded /\ streamFault = "none" /\ Residue(Decoded(payload)) # <<>>) =>
        /\ delivered = TerminatedLineRecords(Decoded(payload))
                           \o RecordSeq(ResidueRecord(Residue(Decoded(payload))))
        /\ doneCount = 1
        /\ Last(events).cb = "onComplete"

\* ------------------------------------------------ streaming: order of delivery

\* the lines of a text that are ended by a newline, in the order of their
\* newlines; cur is the part of the current line already passed
RECURSIVE LinesOf(_, _)
LinesOf(text, cur) ==
    IF text = <<>> THEN <<>>
    ELSE IF Head(text) = LF THEN <<cur>> \o LinesOf(Tail(text), <<>>)
    ELSE LinesOf(Tail(text), Append(cur, Head(text)))

\* the records of the non-blank well-formed lines among them, in their order
RECURSIVE RecordsOfLines(_)
RecordsOfLines(lines) ==
    IF lines = <<>> THEN <<>>
    ELSE (IF Trim(Head(lines)) = <<>> THEN <<>>
          ELSE RecordSeq(StreamJsonParse(Head(lines))))
             \o RecordsOfLines(Tail(lines))

\* the decoded text the session has read so far
SeenText == Decoded(SubSeq(payload, 1, offset))

\* the part of it that the line loop has taken off the buffer
TakenText == SubSeq(SeenText, 1, Len(SeenText) - Len(buffer))

DoneRecordPlaces(recs) == {i \in 1..Len(recs) : recs[i].k = "rec" /\ recs[i].done}

\* C31: a record with done: true does not by itself end the session: a session
\* whose body holds such a record and that ended without a fault has delivered
\* every record of the body, those after the done: true record included, and
\* the terminal callback has fired exactly once, after all of them, at the end
\* of the byte stream.
C31_DoneRecordDoesNotEnd ==
    (/\ SessionEnded /\ streamFault = "none"
     /\ DoneRecordPlaces(OneChunkRecords(payload)) # {}) =>
        /\ delivered = OneChunkRecords(payload)
        /\ doneCount = 1
        /\ sawDone
        /\ Last(events).cb = "onComplete"

\* ------------------------- streaming query: updates of the structured output

\* the places of the onTextUpdate invocations before place i
TextUpdatesBefore(evs, i) == {j \in 1..(i - 1) : evs[j].cb = "onTextUpdate"}

\* onStructuredOutputUpdate at place i follows the onTextUpdate of its record
\* and carries what extraction gives on the accumulated text of that record
FollowsTextUpdate(evs, i) ==
    /\ i > 1
    /\ evs[i - 1].cb = "onTextUpdate"
    /\ TruthyOpt(extractStructuredData(evs[i - 1].arg))
    /\ evs[i].arg = extractStructuredData(evs[i - 1].arg).v

\* extraction at the record before the one of place i gave another result, or
\* none, or there is no record before it
NewlySucceeds(evs, i) ==
    TextUpdatesBefore(evs, i - 1) # {} =>
        LET j == MaxOf(TextUpdatesBefore(evs, i - 1)) IN
        extractStructuredData(evs[j].arg) # Some(evs[i].arg)

\* C32: in a streaming query onStructuredOutputUpdate fires at a record only if
\* extraction on the accumulated text newly succeeds at that record: it comes
\* right after the onTextUpdate of the record, with what extraction gives on the
\* accumulated text, and extraction did not give the same at the preceding
\* record.
C32_StructuredUpdateOnlyWhenNew ==
    "onTextUpdate" \in callbacks =>
        \A i \in 1..Len(events) :
            events[i].cb = "onStructuredOutputUpdate" =>
                FollowsTextUpdate(events, i) /\ NewlySucceeds(events, i)

\* ------------------------------------- extraction: the first top-level span

\* the place of the brace that closes the span opened before place i, depth
\* being the number of braces open at i; 0 when the span is never closed.
\* String literals are single tokens, so a brace inside one is never counted.
RECURSIVE ClosingBrace(_, _, _)
ClosingBrace(t, i, depth) ==
    IF i > Len(t) THEN 0
    ELSE IF t[i] = "{" THEN ClosingBrace(t, i + 1, depth + 1)
    ELSE IF t[i] = "}"
         THEN IF depth = 1 THEN i ELSE ClosingBrace(t, i + 1, depth - 1)
    ELSE ClosingBrace(t, i + 1, depth)

\* the first top-level brace-delimited span of a text, if it has one
FirstTopLevelSpan(t) ==
    LET opens == {i \in 1..Len(t) : t[i] = "{"} IN
    IF opens = {} THEN None
    ELSE LET i == MinOf(opens) IN
         IF ClosingBrace(t, i + 1, 1) = 0 THEN None
         ELSE Some(SubSeq(t, i, ClosingBrace(t, i + 1, 1)))

\* C33: when the text has no fenced block, what is parsed is its first
\* top-level brace-delimited span, which ends at the brace that closes the
\* first opening brace: a valid object followed by text with another closing
\* brace yields that object.
C33_FirstTopLevelSpan ==
    (/\ xOut.stage >= 1
     /\ ~HasFencedBlock(xText)
     /\ FirstTopLevelSpan(xText).some) =>
        xOut.structured = JsonParse(FirstTopLevelSpan(xText).v)

\* --------------------------------- preprocessing: when the instruction is added

\* the text begins with a web address: with the scheme http:// or https://
BeginsWithAddress(t) == t # <<>> /\ Head(t) \in {SchemeHttps, SchemeHttp}

\* C34: preprocessing puts "Navigate to " in front exactly when the trimmed
\* query, with the scheme in front if it was a bare domain, begins with a web
\* address and has no navigation verb; a query that does not begin with a web
\* address, one that merely begins with the letters "http" included, comes
\* back without it.
C34_PrefixExactlyForAddress ==
    processedQuery.some =>
        LET rewritten == preprocessScheme(Trim(query)) IN
        processedQuery.v = IF BeginsWithAddress(rewritten) /\ ~HasNavigationVerb(rewritten)
                           THEN NavigateTo \o rewritten
                           ELSE rewritten

\* ------------------------------- streaming: a terminal callback that throws

\* C35: the terminal callback runs at most once even when it fails itself: in
\* no session is onDone invoked a second time, and a throw of onDone (a throwing
\* onComplete, a final extraction that throws) never leaves the task as an
\* unhandled fault.
C35_TerminalAtMostOnceIfThrows ==
    /\ doneCount <= 1
    /\ spc # "unhandled"

\* -------------------------------- streaming: a record callback that throws

\* the onChunk closure threw at a delivered record: the extraction of the tool
\* calls of its accumulated text (line 590) threw
ChunkThrew ==
    /\ "onStructuredOutputUpdate" \in callbacks
    /\ \E k \in 1..Len(Fragments(delivered)) :
          CommandsOf(Concat(SubSeq(Fragments(delivered), 1, k))).threw

\* C36: an exception thrown by the record callback while a line is processed
\* does not end the session: a session in which it threw and that has ended has
\* had its terminal callback exactly once and no unhandled fault, and when it
\* ended with the byte stream every record of the body was delivered, those
\* after the throw included.
C36_RecordCallbackThrowSwallowed ==
    (ChunkThrew /\ SessionEnded) =>
        /\ doneCount = 1
        /\ spc = "end"
        /\ (sawDone /\ streamFault = "none") => delivered = OneChunkRecords(payload)

\* ------------------------------------- streaming: what stream gives its caller

\* the exchange of the session failed: no connection, a non-success status, no
\* body, or a fault in the middle of the body
ExchangeFailed == streamFault \in {"connect", "status", "nullbody", "midstream"}

\* C37: the promise of stream resolves to the cancel function without waiting
\* for the response and never rejects: once the task is started the cancel
\* function is in the hands of the caller, while the fetch is still pending
\* too, and whatever happens to the exchange the setup-failure path of
\* queryStream is never taken: onError never fires, and a failure of the
\* exchange has the terminal callback onDone invoked.
C37_StreamNeverRejects ==
    streamFetches > 0 =>
        /\ spc \notin {"idle", "setupFailed", "setupRejected"}
        /\ ArgsOf(events, "onError") = <<>>
        /\ (spc = "fetch" /\ ~cancelledAt.called) => ENABLED Cancel
        /\ ExchangeFailed => doneCount >= 1

\* the service answered with a non-success status: the session ended through
\* the terminal callback, onComplete fired once, onError did not
C37_Witness ==
    /\ streamFault = "status" /\ spc = "end"
    /\ doneCount = 1
    /\ Len(ArgsOf(events, "onComplete")) = 1
    /\ ArgsOf(events, "onError") = <<>>

\* ------------------------------- single-shot: failures that are no API error

\* the last failed attempt failed with an error that the executor did not raise
\* itself as an OllamaAPIError: a rejected fetch, the abort of the timeout, a
\* body that is not JSON or that breaks off
ForeignFailure == lastFault.kind # "none" /\ ~InstanceOfOllamaAPIError(lastFault.error)

\* C38: every failure of an attempt that is no OllamaAPIError raised by the
\* executor, a success status with a body that is not JSON included, is
\* surfaced on the last attempt as an OllamaNetworkError that wraps the original
\* error, with the message "Network error: " followed by the original message
\* and no status code; on an earlier attempt the call waits and tries again.
C38_ForeignFailureWrapped ==
    /\ (ForeignFailure /\ ppc = "threw") =>
          /\ lastFault.attempt = retryAttempts
          /\ postOutcome = Threw(OllamaNetworkError("Network error: " \o lastFault.error.message,
                                                    lastFault.error))
          /\ ~postOutcome.error.hasStatus
    /\ (ForeignFailure /\ lastFault.attempt = attempt /\ attempt < retryAttempts) =>
          ppc = "delay" /\ postOutcome = NoOutcome

\* the second attempt got a success status with a body that is not JSON and
\* the call failed with the wrapped SyntaxError
C38_Witness ==
    /\ ppc = "threw" /\ retryAttempts = 2 /\ fetchCount = 2
    /\ lastFault.kind = "badjson" /\ pendingResp.ok
    /\ InstanceOfOllamaNetworkError(postOutcome.error)
    /\ postOutcome.error.originalError = Some(JsonSyntaxError)

\* ------------------------------------- single-shot: no attempt is configured

C40_PreprocessIdempotent ==
    processedQuery.some => preprocessQuery(processedQuery.v) = processedQuery.v

\* a bare domain with blanks around it was given the scheme and the
\* instruction, and preprocessing leaves the result as it is
C40_Witness ==
    /\ query = <<" ", "example", ".", "com", " ">>
    /\ processedQuery = Some(NavigateTo \o <<SchemeHttps, "example", ".", "com">>)
    /\ preprocessQuery(processedQuery.v) = processedQuery.v
====
